---- MODULE Spec2Model ----
(***************************************************************************)
(* Model of md-linear-sync: the bidirectional synchronisation between a    *)
(* tree of markdown ticket files and Linear.                               *)
(*                                                                         *)
(*   RetrySpec  - RetryManager.withRetry as a state machine                *)
(***************************************************************************)
EXTENDS Integers, Sequences, FiniteSets, TLC

VARIABLES
  rCfg,       \* withRetry: finalConfig = {...DEFAULT_CONFIG, ...config}
  rPc,        \* withRetry: position in the loop
  rAttempt,   \* withRetry: the loop variable attempt (0-based)
  rCalls,     \* withRetry: number of invocations of operation()
  rWaits,     \* withRetry: the wait that preceded each invocation (0: none)
  rLastErr,   \* withRetry: lastError
  rFailed,    \* withRetry: for each failed invocation, whether its error was retryable
  rOut,       \* withRetry: how the call ended (result or thrown error)
  remote,     \* Linear: the issue stored for each identifier
  hooks,      \* Linear: webhook notifications not yet delivered to POST /webhook
  tree,       \* linear-tickets/: path -> file bytes and mtime
  fsEvents,   \* chokidar: add/unlink events not yet delivered to the daemon
  timers,     \* the debounce timers set with setTimeout and neither fired nor cleared
  moveDebounceMap, \* SyncDaemon.moveDebounceMap: key -> the timer stored for it
  burst,      \* per key: time of the last watcher event and the timers settled since (history)
  ops,        \* the pulls and pushes in flight, each with its locals
  now,        \* the clock (ms)
  budget,     \* how many external changes (remote edits, local moves and edits) are left
  dirOrder,   \* the order in which readdirSync lists entries (fixed by the file system)
  pulled,     \* per id: the issue whose pull wrote the files now in place, untouched since
  last,       \* what the most recent step did (history, read by the properties)
  pushAll,    \* pushAllTickets: its position, the files left, its tallies and its log
  reqs,       \* POST /webhook: the requests received, each with its position and its response
  daemon,     \* SyncDaemon: ngrokUrl, webhookId, restartTimer, server, fileWatcher
  ngrok,      \* ngrok: the public URL of the open tunnel (0: none)
  webhooks,   \* Linear: the registered webhooks
  stimers,    \* the rotation and cool-down timers set and neither fired nor cleared
  proc,       \* the process: positions of start, rotation and stop, listeners, exit
  env,        \* failures left to ngrok and Linear, the next fresh URL and webhook id
  shist,      \* history of the session, read by the properties
  pullAll,    \* pullAllTickets: its position, the issues left, its tallies and its log
  codec       \* a filename generated for an id, a title and a parent, and the id read back

rvars == <<rCfg, rPc, rAttempt, rCalls, rWaits, rLastErr, rFailed, rOut>>

dvars == <<remote, hooks, tree, fsEvents, timers, moveDebounceMap, burst, ops, now, budget, dirOrder, pulled, last>>

ivars == <<reqs>>

svars == <<daemon, ngrok, webhooks, stimers, proc, env, shist>>

bvars == <<pullAll, codec>>

vars == <<rvars, dvars, pushAll, ivars, svars, bvars>>

(***************************************************************************)
(* Time, TimezoneUtils                                                     *)
(***************************************************************************)

DEBOUNCE_MS == 2000
SGT_OFFSET_HOURS == 8
SGT_OFFSET_MS == SGT_OFFSET_HOURS * 60 * 60 * 1000

\* The clock advances in steps of half a debounce window.
TickMs == DEBOUNCE_MS \div 2

\* Bound on the clock: the number of steps the clock makes.
MaxTicks == 3
MaxTime == MaxTicks * TickMs

\* An ISO string with an offset is modelled by its wall-clock part and its zone.
\* sgtDate.toISOString().replace('Z', '+08:00')
utcToSGT(utcMs) == [wall |-> utcMs + SGT_OFFSET_MS, zone |-> "+08:00"]

\* new Date(isoString).getTime()
DateParse(iso) ==
  IF iso.zone = "+08:00" THEN iso.wall - SGT_OFFSET_MS ELSE iso.wall

(***************************************************************************)
(* Tickets, filenames, configuration                                       *)
(***************************************************************************)

\* A ticket identifier PAP-1 is <<"PAP", "1">>; a filename is the sequence of
\* its tokens: PAP-1-fix-bug.md is <<"PAP", "-", "1", "-", "fix-bug", ".md">>.
TeamKeys == {"PAP", "ENG"}
Numbers == {"1", "2"}
Ids == {<<"PAP", "1">>, <<"PAP", "2">>}
NoId == <<>>

\* PAP-2 is a sub-issue of PAP-1 (issue.parent?.identifier).
ParentOf(id) == IF id = <<"PAP", "2">> THEN <<"PAP", "1">> ELSE NoId

Titles == {"Fix Bug", "Add API"}
Descs == {"d1", "d2"}

\* title.toLowerCase().replace(...) of generateFilename, on the titles of the model
Sanitize(title) ==
  CASE title = "Fix Bug" -> "fix-bug"
    [] title = "Add API" -> "add-api"
    [] OTHER -> ""

\* extractTitleFromFilename: hyphens to spaces, then title case
TitleCase(slug) ==
  CASE slug = "fix-bug" -> "Fix Bug"
    [] slug = "add-api" -> "Add Api"
    [] OTHER -> ""

\* String.prototype.trim on the descriptions of the model
Trim(str) ==
  CASE str = " d1 " -> "d1"
    [] str = " " -> ""
    [] OTHER -> str

generateFilename(linearId, title, parentId) ==
  IF parentId # NoId
    THEN <<parentId[1], "-", parentId[2], ".", linearId[2], "-", Sanitize(title), ".md">>
    ELSE <<linearId[1], "-", linearId[2], "-", Sanitize(title), ".md">>

\* /^[A-Z]+-\d+/ matches the first three tokens
HasIdPrefix(filename) ==
  /\ Len(filename) >= 3
  /\ filename[1] \in TeamKeys
  /\ filename[2] = "-"
  /\ filename[3] \in Numbers

\* /^[A-Z]+-\d+\.\d+/ matches the first five tokens
HasChildPrefix(filename) ==
  /\ HasIdPrefix(filename)
  /\ Len(filename) >= 5
  /\ filename[4] = "."
  /\ filename[5] \in Numbers

\* TicketFileParser.extractLinearIdFromFilename
extractLinearIdFromFilename(filename) ==
  IF HasChildPrefix(filename) THEN <<filename[1], filename[5]>>
  ELSE IF HasIdPrefix(filename) THEN <<filename[1], filename[3]>>
  ELSE NoId

\* SyncDaemon.extractTicketIdFromFilename: PAP-1.2-x.md gives "PAP-1.2"
extractTicketIdFromFilename(filename) ==
  IF HasChildPrefix(filename) /\ Len(filename) >= 6 /\ filename[6] = "-"
    THEN <<filename[1], filename[3], filename[5]>>
  ELSE IF HasIdPrefix(filename) /\ Len(filename) >= 4 /\ filename[4] = "-"
    THEN <<filename[1], filename[3]>>
  ELSE NoId

\* config.statusMapping: state name -> {id, folder}
StateNames == {"Todo", "Done"}
statusMapping ==
  [n \in StateNames |->
     IF n = "Todo" THEN [id |-> "state-todo", folder |-> "todo"]
                   ELSE [id |-> "state-done", folder |-> "done"]]
Folders == {statusMapping[n].folder : n \in StateNames}
NoFolder == ""
NoStateId == ""

\* The id the remote service gives a workflow state (issue.state.id).
RemoteStateId(name) ==
  CASE name = "Todo" -> "state-todo"
    [] name = "Done" -> "state-done"
    [] OTHER -> "state-other"

findStateIdForFolder(folder) ==
  IF \E n \in StateNames : statusMapping[n].folder = folder
    THEN statusMapping[CHOOSE n \in StateNames : statusMapping[n].folder = folder].id
    ELSE NoStateId

findStatusFolder(stateName) ==
  IF stateName \in StateNames THEN statusMapping[stateName].folder ELSE NoFolder

\* path.join(process.cwd(), 'linear-tickets', folder, filename)
Path(folder, filename) == [folder |-> folder, name |-> filename]
NoPath == [folder |-> NoFolder, name |-> <<>>]

(***************************************************************************)
(* TicketFileParser, convertLinearIssueToTicket                            *)
(***************************************************************************)

\* `# ${issue.title}\n\n*No description provided*`
Placeholder(title) == "# " \o title \o " *No description provided*"

convertLinearIssueToTicket(issue) ==
  [ frontmatter |-> [ linear_id  |-> issue.identifier,
                      title      |-> issue.title,
                      status     |-> issue.state,
                      updated_at |-> utcToSGT(issue.updatedAt) ],
    content |-> IF issue.description # "" THEN issue.description
                ELSE Placeholder(issue.title) ]

\* The bytes of a file are modelled by the frontmatter and the body text.
generateFile(ticket) == [fm |-> ticket.frontmatter, body |-> ticket.content]

parseFile(bytes) == [frontmatter |-> bytes.fm, content |-> Trim(bytes.body)]

\* validateFile(content).valid
validateFile(bytes) ==
  LET t == parseFile(bytes)
  IN /\ t.frontmatter.linear_id # NoId
     /\ t.frontmatter.status # ""
     /\ t.content # ""

\* extractTitleFromFilename(path.basename(filePath, '.md'), linearId)
extractTitleFromFilename(filename, linearId) ==
  IF /\ Len(filename) >= 5
     /\ linearId # NoId
     /\ <<filename[1], filename[3]>> = linearId
     /\ filename[2] = "-" /\ filename[4] = "-"
    THEN TitleCase(filename[5])
    ELSE ""

(***************************************************************************)
(* RetryManager                                                            *)
(***************************************************************************)

\* Bound on the maxAttempts values the retry specification draws.
MaxAttemptsBound == 4

DEFAULT_MAX_ATTEMPTS == 3
DELAY_SHORT == 30000
DELAY_LONG == 120000
DEFAULT_DELAYS == <<0, DELAY_SHORT, DELAY_LONG>>
DEFAULT_CONFIG == [maxAttempts |-> DEFAULT_MAX_ATTEMPTS, delays |-> DEFAULT_DELAYS]

\* An error message is modelled by the set of keyword groups it contains.
NetworkWords    == "network"     \* network, timeout, connection, econnreset, enotfound
RateLimitWords  == "ratelimit"   \* rate limit, too many requests, 429
ServerWords     == "server"      \* 500, 502, 503, 504, internal server error, ...
AuthWords       == "auth"        \* unauthorized, forbidden, invalid api key, 401, 403
ValidationWords == "validation"  \* validation, invalid, bad request, 400
FsWords         == "fs"          \* enoent, permission denied, eacces
WordGroups == {NetworkWords, RateLimitWords, ServerWords, AuthWords, ValidationWords, FsWords}

\* The error messages the retry specification draws: at most two keyword groups.
ErrorMessages == {m \in SUBSET WordGroups : Cardinality(m) <= 2}

isRetryableError(message) ==
  IF message \cap {NetworkWords, RateLimitWords, ServerWords} # {} THEN TRUE
  ELSE IF message \cap {AuthWords, ValidationWords, FsWords} # {} THEN FALSE
  ELSE TRUE

\* finalConfig.delays[attempt - 1] || finalConfig.delays[finalConfig.delays.length - 1]
\* (attempt is the 0-based loop variable; a 0 or a missing entry is falsy)
RetryDelay(cfg, attempt) ==
  LET d == cfg.delays
      first == IF attempt \in 1..Len(d) THEN d[attempt] ELSE 0
  IN IF first # 0 THEN first ELSE d[Len(d)]

\* The configurations the retry specification draws for the config argument.
RetryConfigs ==
  { [maxAttempts |-> n, delays |-> d] :
      n \in 1..MaxAttemptsBound, d \in {DEFAULT_DELAYS, <<1000, 5000>>} }

(***************************************************************************)
(* The local tree and the remote service                                   *)
(***************************************************************************)

\* Bound on the pulls and pushes in flight at the same time.
MaxOps == 2
\* Bound on the external changes (remote edits, local moves and edits) of a run.
MaxChanges == 2

Slots == 1..MaxOps
Idle == [kind |-> "idle"]
NoIssue == [present |-> FALSE]
NoTimer == [key |-> NoId, action |-> "none", due |-> 0]
NoBurst == [lastAt |-> 0 - 1, events |-> 0, settled |-> 0]

FilesOf(t, id) == {p \in DOMAIN t : extractLinearIdFromFilename(p.name) = id}

\* The paths and bytes of the files of one ticket (not their mtimes).
Contents(t, id) == {<<p, t[p].bytes>> : p \in FilesOf(t, id)}

Unlink(t, p) == [q \in DOMAIN t \ {p} |-> t[q]]

WriteFile(t, p, bytes, time) ==
  [q \in DOMAIN t \cup {p} |-> IF q = p THEN [bytes |-> bytes, mtime |-> time] ELSE t[q]]

\* The events chokidar reports for a change of the tree (ignoreInitial, no 'change').
WatchEvents(t, u) ==
  {[path |-> p, kind |-> "unlink"] : p \in DOMAIN t \ DOMAIN u}
    \cup {[path |-> p, kind |-> "add"] : p \in DOMAIN u \ DOMAIN t}

\* Position of a directory entry in a listing; dirOrder reverses it.
SlugRank(slug) == IF slug = "add-api" THEN 1 ELSE IF slug = "fix-bug" THEN 2 ELSE 3
NameRank(name) ==
  IF HasChildPrefix(name) THEN 10 + SlugRank(name[7])
  ELSE IF HasIdPrefix(name) THEN SlugRank(name[5])
  ELSE 0
PathRank(p, order) ==
  LET r == (IF p.folder = "done" THEN 100 ELSE 200) + NameRank(p.name)
  IN IF order THEN r ELSE 0 - r

\* findTicketFile: the first file, in listing order, whose name encodes ticketId
findTicketFile(t, ticketId, order) ==
  LET matches == FilesOf(t, ticketId)
  IN IF matches = {} THEN NoPath
     ELSE CHOOSE p \in matches : \A q \in matches : PathRank(p, order) <= PathRank(q, order)

\* removeLocalTicketFile: the first file whose extractTicketIdFromFilename is ticketId
removeLocalTicketFile(t, ticketId, order) ==
  LET matches == {p \in DOMAIN t : extractTicketIdFromFilename(p.name) = ticketId}
  IN IF matches = {} THEN t
     ELSE Unlink(t, CHOOSE p \in matches : \A q \in matches : PathRank(p, order) <= PathRank(q, order))

\* The new path pullSingleTicket computes for a fetched issue.
PullTarget(issue) ==
  Path(findStatusFolder(issue.state),
       generateFilename(issue.identifier, issue.title, ParentOf(issue.identifier)))

\* Mutant: the pull stamps updated_at with the time of the pull, not issue.updatedAt.
PullApply_StampsNow(t, issue, order, time) ==
  LET existing == findTicketFile(t, issue.identifier, order)
      target == PullTarget(issue)
      content == generateFile(convertLinearIssueToTicket([issue EXCEPT !.updatedAt = time]))
      t1 == IF existing # NoPath /\ existing # target THEN Unlink(t, existing) ELSE t
  IN IF findStatusFolder(issue.state) = NoFolder THEN t
     ELSE WriteFile(t1, target, content, time)

\* Mutant: the pull writes the new file and leaves the old one in place.
PullApply_NoUnlink(t, issue, order, time) ==
  IF findStatusFolder(issue.state) = NoFolder THEN t
  ELSE WriteFile(t, PullTarget(issue), generateFile(convertLinearIssueToTicket(issue)), time)

\* Mutant: the existing file is unlinked before the status folder is looked up.
PullApply_UnlinksBeforeCheck(t, issue, order, time) ==
  LET existing == findTicketFile(t, issue.identifier, order)
      target == PullTarget(issue)
      content == generateFile(convertLinearIssueToTicket(issue))
      t1 == IF existing # NoPath /\ existing # target THEN Unlink(t, existing) ELSE t
  IN IF findStatusFolder(issue.state) = NoFolder THEN t1
     ELSE WriteFile(t1, target, content, time)

\* pullSingleTicket after the fetch: the status folder of the state or the
\* error that ends it; then unlink the existing file when it is at another
\* path and write the generated content to the new path.
PullApply(t, issue, order, time) ==
  LET existing == findTicketFile(t, issue.identifier, order)
      target == PullTarget(issue)
      content == generateFile(convertLinearIssueToTicket(issue))
      t1 == IF existing # NoPath /\ existing # target THEN Unlink(t, existing) ELSE t
  IN IF findStatusFolder(issue.state) = NoFolder THEN t
     ELSE WriteFile(t1, target, content, time)

\* Mutant: the description is sent whenever the file has one, changed or not.
PushUpdates_AlwaysDescription(path, ticket, newStateId, issue) ==
  LET newTitle == IF ticket.frontmatter.title # "" THEN ticket.frontmatter.title
                  ELSE extractTitleFromFilename(path.name, ticket.frontmatter.linear_id)
  IN (IF RemoteStateId(issue.state) # newStateId THEN {"stateId"} ELSE {})
       \cup (IF newTitle # "" /\ issue.title # newTitle THEN {"title"} ELSE {})
       \cup (IF ticket.content # "" THEN {"description"} ELSE {})

\* The updates object pushSingleTicket builds: the set of changed fields.
PushUpdates(path, ticket, newStateId, issue) ==
  LET newTitle == IF ticket.frontmatter.title # "" THEN ticket.frontmatter.title
                  ELSE extractTitleFromFilename(path.name, ticket.frontmatter.linear_id)
  IN (IF RemoteStateId(issue.state) # newStateId THEN {"stateId"} ELSE {})
       \cup (IF newTitle # "" /\ issue.title # newTitle THEN {"title"} ELSE {})
       \cup (IF ticket.content # "" /\ issue.description # ticket.content
               THEN {"description"} ELSE {})

PushNewTitle(path, ticket) ==
  IF ticket.frontmatter.title # "" THEN ticket.frontmatter.title
  ELSE extractTitleFromFilename(path.name, ticket.frontmatter.linear_id)

\* The state name the remote gives the state id of a folder.
StateNameOfId(stateId) == CHOOSE n \in StateNames : RemoteStateId(n) = stateId

\* client.updateIssue(id, updates) as the remote applies it
ApplyUpdates(issue, updates, path, ticket, newStateId, time) ==
  [issue EXCEPT
     !.state = IF "stateId" \in updates THEN StateNameOfId(newStateId) ELSE @,
     !.title = IF "title" \in updates THEN PushNewTitle(path, ticket) ELSE @,
     !.description = IF "description" \in updates THEN ticket.content ELSE @,
     !.updatedAt = time]

\* Mutant: the file is rewritten as it was read, its updated_at not refreshed.
PushRewrite_KeepsStamp(ticket, time) ==
  generateFile(ticket)

\* ticket.frontmatter.updated_at = TimezoneUtils.now(); generateFile(ticket)
PushRewrite(ticket, time) ==
  generateFile([ticket EXCEPT !.frontmatter.updated_at = utcToSGT(time)])

InitIssue(id) ==
  [present |-> TRUE, identifier |-> id, title |-> "Fix Bug", description |-> "d1",
   state |-> "Todo", updatedAt |-> 0]

InitTree ==
  [p \in {PullTarget(InitIssue(id)) : id \in Ids} |->
     [bytes |-> generateFile(convertLinearIssueToTicket(
                   InitIssue(extractLinearIdFromFilename(p.name)))),
      mtime |-> 0]]

DaemonInit ==
  /\ remote = [id \in Ids |-> InitIssue(id)]
  /\ hooks = {}
  /\ tree = InitTree
  /\ fsEvents = {}
  /\ timers = {}
  /\ moveDebounceMap = [k \in Ids |-> NoTimer]
  /\ burst = [k \in Ids |-> NoBurst]
  /\ ops = [s \in Slots |-> Idle]
  /\ now = 0
  /\ budget = MaxChanges
  /\ dirOrder \in BOOLEAN
  /\ pulled = [id \in Ids |-> NoIssue]
  /\ last = [act |-> "init"]

(***************************************************************************)
(* The daemon: webhook pulls, watcher and debounce, pushes                 *)
(***************************************************************************)

FreeSlot == CHOOSE s \in Slots : ops[s] = Idle /\ \A r \in Slots : ops[r] = Idle => s <= r
HasFreeSlot == \E s \in Slots : ops[s] = Idle

\* pulled is kept for the ids whose files and remote issue a step leaves alone.
KeepPulled(t, r) ==
  [id \in Ids |-> IF Contents(t, id) = Contents(tree, id) /\ r[id] = remote[id]
                    THEN pulled[id] ELSE NoIssue]

\* A user of Linear edits one field of an issue; Linear queues a notification.
RemoteEdit(id, field, value) ==
  /\ budget > 0
  /\ remote[id].present
  /\ remote[id][field] # value
  /\ remote' = [remote EXCEPT ![id] = [@ EXCEPT ![field] = value, !.updatedAt = now]]
  /\ hooks' = hooks \cup {[id |-> id, action |-> "update"]}
  /\ budget' = budget - 1
  /\ pulled' = KeepPulled(tree, remote')
  /\ last' = [act |-> "env"]
  /\ UNCHANGED <<tree, fsEvents, timers, moveDebounceMap, burst, ops, now, dirOrder>>

\* A user of Linear deletes an issue.
RemoteDelete(id) ==
  /\ budget > 0
  /\ remote[id].present
  /\ remote' = [remote EXCEPT ![id] = NoIssue]
  /\ hooks' = hooks \cup {[id |-> id, action |-> "remove"]}
  /\ budget' = budget - 1
  /\ pulled' = KeepPulled(tree, remote')
  /\ last' = [act |-> "env"]
  /\ UNCHANGED <<tree, fsEvents, timers, moveDebounceMap, burst, ops, now, dirOrder>>

\* The local user moves a ticket file to another status folder (rename keeps the mtime).
UserMove(p, folder) ==
  /\ budget > 0
  /\ p \in DOMAIN tree
  /\ folder # p.folder
  /\ Path(folder, p.name) \notin DOMAIN tree
  /\ tree' = [q \in (DOMAIN tree \ {p}) \cup {Path(folder, p.name)} |->
                IF q = Path(folder, p.name) THEN tree[p] ELSE tree[q]]
  /\ fsEvents' = fsEvents \cup WatchEvents(tree, tree')
  /\ budget' = budget - 1
  /\ pulled' = KeepPulled(tree', remote)
  /\ last' = [act |-> "env"]
  /\ UNCHANGED <<remote, hooks, timers, moveDebounceMap, burst, ops, now, dirOrder>>

\* The local user edits the body of a ticket file.
UserEdit(p, body) ==
  /\ budget > 0
  /\ p \in DOMAIN tree
  /\ tree[p].bytes.body # body
  /\ tree' = [tree EXCEPT ![p] = [bytes |-> [@.bytes EXCEPT !.body = body], mtime |-> now]]
  /\ budget' = budget - 1
  /\ pulled' = KeepPulled(tree', remote)
  /\ last' = [act |-> "env"]
  /\ UNCHANGED <<remote, hooks, fsEvents, timers, moveDebounceMap, burst, ops, now, dirOrder>>

\* POST /webhook, action update or create: syncTicket -> pullSingleTicket up to
\* the response of client.getIssue.
WebhookPull(id) ==
  /\ [id |-> id, action |-> "update"] \in hooks
  /\ HasFreeSlot
  /\ hooks' = hooks \ {[id |-> id, action |-> "update"]}
  /\ IF remote[id].present
       THEN ops' = [ops EXCEPT ![FreeSlot] = [kind |-> "pull", id |-> id, pc |-> "write",
                                              issue |-> remote[id]]]
       ELSE ops' = ops    \* getIssue throws: Issue not found
  /\ last' = [act |-> "pullFetch", id |-> id]
  /\ UNCHANGED <<remote, tree, fsEvents, timers, moveDebounceMap, burst, now, budget, dirOrder, pulled>>

\* pullSingleTicket from findTicketFile to writeFileSync (no await in between).
PullWrite(s) ==
  /\ ops[s] # Idle
  /\ ops[s].kind = "pull"
  /\ LET issue == ops[s].issue
         id == issue.identifier
     IN /\ tree' = PullApply(tree, issue, dirOrder, now)
        /\ pulled' = [KeepPulled(tree', remote) EXCEPT ![id] = issue]
        /\ last' = [act |-> "pull", id |-> id, issue |-> issue,
                    existing |-> findTicketFile(tree, id, dirOrder),
                    before |-> Contents(tree, id),
                    repeat |-> (pulled[id] = issue)]
  /\ fsEvents' = fsEvents \cup WatchEvents(tree, tree')
  /\ ops' = [ops EXCEPT ![s] = Idle]
  /\ UNCHANGED <<remote, hooks, timers, moveDebounceMap, burst, now, budget, dirOrder>>

\* POST /webhook, action remove: handleTicketDeletion -> removeLocalTicketFile.
WebhookRemove(id) ==
  /\ [id |-> id, action |-> "remove"] \in hooks
  /\ hooks' = hooks \ {[id |-> id, action |-> "remove"]}
  /\ tree' = removeLocalTicketFile(tree, id, dirOrder)
  /\ fsEvents' = fsEvents \cup WatchEvents(tree, tree')
  /\ pulled' = KeepPulled(tree', remote)
  /\ last' = [act |-> "delete", id |-> id, before |-> DOMAIN tree]
  /\ UNCHANGED <<remote, timers, moveDebounceMap, burst, ops, now, budget, dirOrder>>

\* The key handleFileMove debounces a path under: filename.match(/^([A-Z]+-\d+)/)
DebounceKey(filename) ==
  IF /\ filename[Len(filename)] = ".md"         \* filePath.endsWith('.md')
     /\ filename[Len(filename) - 1] # "README"  \* !filePath.endsWith('README.md')
     /\ HasIdPrefix(filename)
    THEN <<filename[1], filename[3]>> ELSE NoId

\* Mutant: the pending timer of the key is not cleared before the new one is set.
handleFileMove_NoClear(e) ==
  /\ LET key == DebounceKey(e.path.name)
         timeoutId == [key |-> key, action |-> IF e.kind = "add" THEN "added" ELSE "removed",
                       due |-> now + DEBOUNCE_MS]
     IN IF key = NoId
          THEN UNCHANGED <<timers, moveDebounceMap, burst>>
          ELSE /\ timers' = timers \cup {timeoutId}
               /\ moveDebounceMap' = [moveDebounceMap EXCEPT ![key] = timeoutId]
               /\ burst' = [burst EXCEPT ![key] =
                    [lastAt |-> now,
                     events |-> IF @.lastAt >= 0 /\ now - @.lastAt < DEBOUNCE_MS
                                  THEN @.events + 1 ELSE 1,
                     settled |-> 0]]
  /\ last' = [act |-> "event", key |-> DebounceKey(e.path.name), at |-> now]
  /\ UNCHANGED <<remote, hooks, tree, ops, dirOrder, pulled, now>>

\* handleFileMove(filePath, action): clear the key's pending timer, set a new one.
handleFileMove(e) ==
  /\ LET key == DebounceKey(e.path.name)
         timeoutId == [key |-> key, action |-> IF e.kind = "add" THEN "added" ELSE "removed",
                       due |-> now + DEBOUNCE_MS]
     IN IF key = NoId
          THEN UNCHANGED <<timers, moveDebounceMap, burst>>
          ELSE /\ timers' = (timers \ {moveDebounceMap[key]}) \cup {timeoutId}
               /\ moveDebounceMap' = [moveDebounceMap EXCEPT ![key] = timeoutId]
               /\ burst' = [burst EXCEPT ![key] =
                    [lastAt |-> now,
                     events |-> IF @.lastAt >= 0 /\ now - @.lastAt < DEBOUNCE_MS
                                  THEN @.events + 1 ELSE 1,
                     settled |-> 0]]
  /\ last' = [act |-> "event", key |-> DebounceKey(e.path.name), at |-> now]
  /\ UNCHANGED <<remote, hooks, tree, ops, dirOrder, pulled, now>>

\* chokidar 'add' / 'unlink' of a change of the tree reaches the daemon.
WatcherDeliver(e) ==
  /\ e \in fsEvents
  /\ fsEvents' = fsEvents \ {e}
  /\ handleFileMove(e)
  /\ UNCHANGED budget

\* pushSingleTicket up to the request of client.getIssue: does it get that far?
PushReady(path) ==
  /\ path # NoPath
  /\ validateFile(tree[path].bytes)
  /\ findStateIdForFolder(path.folder) # NoStateId

\* Mutant: a timer that settles on a removed event starts a push as well.
TimerFire_PushesRemoved(tm) ==
  /\ tm \in timers
  /\ now >= tm.due
  /\ HasFreeSlot
  /\ timers' = timers \ {tm}
  /\ moveDebounceMap' = [moveDebounceMap EXCEPT ![tm.key] = NoTimer]
  /\ LET path == findTicketFile(tree, tm.key, dirOrder)
     IN IF PushReady(path)
          THEN ops' = [ops EXCEPT ![FreeSlot] =
                 [kind |-> "push", id |-> tm.key, pc |-> "fetch", path |-> path,
                  ticket |-> parseFile(tree[path].bytes),
                  newStateId |-> findStateIdForFolder(path.folder)]]
          ELSE ops' = ops
  /\ burst' = [burst EXCEPT ![tm.key].settled = @ + 1]
  /\ last' = [act |-> "settle", key |-> tm.key, action |-> tm.action, at |-> now]
  /\ UNCHANGED <<remote, hooks, tree, fsEvents, now, budget, dirOrder, pulled>>

\* The debounce timer of a key settles; an 'added' timer starts pushSingleTicket.
TimerFire(tm) ==
  /\ tm \in timers
  /\ now >= tm.due
  /\ tm.action = "added" => HasFreeSlot
  /\ timers' = timers \ {tm}
  /\ moveDebounceMap' = [moveDebounceMap EXCEPT ![tm.key] = NoTimer]
  /\ LET path == findTicketFile(tree, tm.key, dirOrder)
     IN IF tm.action = "added" /\ PushReady(path)
          THEN ops' = [ops EXCEPT ![FreeSlot] =
                 [kind |-> "push", id |-> tm.key, pc |-> "fetch", path |-> path,
                  ticket |-> parseFile(tree[path].bytes),
                  newStateId |-> findStateIdForFolder(path.folder)]]
          ELSE ops' = ops
  /\ burst' = [burst EXCEPT ![tm.key].settled = @ + 1]
  /\ last' = [act |-> "settle", key |-> tm.key, action |-> tm.action, at |-> now]
  /\ UNCHANGED <<remote, hooks, tree, fsEvents, now, budget, dirOrder, pulled>>

\* Mutant: a push that finds nothing to update never returns.
PushFetch_HoldsSlot(s) ==
  /\ ops[s] # Idle
  /\ ops[s].kind = "push" /\ ops[s].pc = "fetch"
  /\ LET op == ops[s]
         rid == op.ticket.frontmatter.linear_id
         issue == remote[rid]
         updates == IF issue.present
                      THEN PushUpdates(op.path, op.ticket, op.newStateId, issue) ELSE {}
     IN /\ IF updates # {}
             THEN ops' = [ops EXCEPT ![s] =
                    [kind |-> "push", id |-> op.id, pc |-> "update", path |-> op.path,
                     ticket |-> op.ticket, newStateId |-> op.newStateId,
                     issue |-> issue, updates |-> updates]]
             ELSE ops' = ops
        /\ last' = [act |-> "pushDiff", slot |-> s, path |-> op.path, ticket |-> op.ticket,
                    newStateId |-> op.newStateId, issue |-> issue, updates |-> updates,
                    treeWas |-> tree, remoteWas |-> remote]
  /\ UNCHANGED <<remote, hooks, tree, fsEvents, timers, moveDebounceMap, burst, now, budget, dirOrder, pulled>>

\* pushSingleTicket: the response of client.getIssue, and the updates object.
PushFetch(s) ==
  /\ ops[s] # Idle
  /\ ops[s].kind = "push" /\ ops[s].pc = "fetch"
  /\ LET op == ops[s]
         rid == op.ticket.frontmatter.linear_id
         issue == remote[rid]
         updates == IF issue.present
                      THEN PushUpdates(op.path, op.ticket, op.newStateId, issue) ELSE {}
     IN /\ IF updates # {}
             THEN ops' = [ops EXCEPT ![s] =
                    [kind |-> "push", id |-> op.id, pc |-> "update", path |-> op.path,
                     ticket |-> op.ticket, newStateId |-> op.newStateId,
                     issue |-> issue, updates |-> updates]]
             ELSE ops' = [ops EXCEPT ![s] = Idle]
        /\ last' = [act |-> "pushDiff", slot |-> s, path |-> op.path, ticket |-> op.ticket,
                    newStateId |-> op.newStateId, issue |-> issue, updates |-> updates,
                    treeWas |-> tree, remoteWas |-> remote]
  /\ UNCHANGED <<remote, hooks, tree, fsEvents, timers, moveDebounceMap, burst, now, budget, dirOrder, pulled>>

\* pushSingleTicket: Linear applies client.updateIssue(linearIssue.id, updates).
PushUpdate(s) ==
  /\ ops[s] # Idle
  /\ ops[s].kind = "push" /\ ops[s].pc = "update"
  /\ LET op == ops[s]
         rid == op.issue.identifier
     IN IF remote[rid].present
          THEN /\ remote' = [remote EXCEPT ![rid] =
                    ApplyUpdates(@, op.updates, op.path, op.ticket, op.newStateId, now)]
               /\ hooks' = hooks \cup {[id |-> rid, action |-> "update"]}
               /\ ops' = [ops EXCEPT ![s] = [op EXCEPT !.pc = "write"]]
          ELSE /\ ops' = [ops EXCEPT ![s] = Idle]   \* updateIssue throws
               /\ UNCHANGED <<remote, hooks>>
  /\ pulled' = KeepPulled(tree, remote')
  /\ last' = [act |-> "pushUpdate", slot |-> s]
  /\ UNCHANGED <<tree, fsEvents, timers, moveDebounceMap, burst, now, budget, dirOrder>>

\* pushSingleTicket: refresh updated_at and rewrite the file read at the start.
PushWrite(s) ==
  /\ ops[s] # Idle
  /\ ops[s].kind = "push" /\ ops[s].pc = "write"
  /\ tree' = WriteFile(tree, ops[s].path, PushRewrite(ops[s].ticket, now), now)
  /\ fsEvents' = fsEvents \cup WatchEvents(tree, tree')
  /\ ops' = [ops EXCEPT ![s] = Idle]
  /\ pulled' = KeepPulled(tree', remote)
  /\ last' = [act |-> "pushWrite", slot |-> s, id |-> ops[s].id]
  /\ UNCHANGED <<remote, hooks, timers, moveDebounceMap, burst, now, budget, dirOrder>>

\* Time passes; a debounce timer fires when it is due.
Tick(limit) ==
  /\ now < limit
  /\ \A tm \in timers : tm.due > now
  /\ now' = now + TickMs
  /\ last' = [act |-> "tick"]
  /\ UNCHANGED <<remote, hooks, tree, fsEvents, timers, moveDebounceMap, burst, ops, budget, dirOrder, pulled>>

RemoteEdits ==
  \E id \in Ids :
    \/ \E v \in StateNames : RemoteEdit(id, "state", v)
    \/ \E v \in Titles : RemoteEdit(id, "title", v)
    \/ \E v \in Descs : RemoteEdit(id, "description", v)
RemoteDeletes == \E id \in Ids : RemoteDelete(id)
UserMoves == \E p \in DOMAIN tree, folder \in Folders : UserMove(p, folder)
UserEdits == \E p \in DOMAIN tree, body \in Descs : UserEdit(p, body)
WebhookPulls == \E id \in Ids : WebhookPull(id)
WebhookRemoves == \E id \in Ids : WebhookRemove(id)
PullWrites == \E s \in Slots : PullWrite(s)
WatcherDelivers == \E e \in fsEvents : WatcherDeliver(e)
TimerFires == \E tm \in timers : TimerFire(tm)
PushFetches == \E s \in Slots : PushFetch(s)
PushUpdateSteps == \E s \in Slots : PushUpdate(s)
PushWrites == \E s \in Slots : PushWrite(s)

notDaemon == <<rvars, pushAll, ivars, svars, bvars>>

DaemonNext ==
  \/ (RemoteEdits /\ UNCHANGED notDaemon)
  \/ (RemoteDeletes /\ UNCHANGED notDaemon)
  \/ (UserMoves /\ UNCHANGED notDaemon)
  \/ (UserEdits /\ UNCHANGED notDaemon)
  \/ (WebhookPulls /\ UNCHANGED notDaemon)
  \/ (WebhookRemoves /\ UNCHANGED notDaemon)
  \/ (PullWrites /\ UNCHANGED notDaemon)
  \/ (WatcherDelivers /\ UNCHANGED notDaemon)
  \/ (TimerFires /\ UNCHANGED notDaemon)
  \/ (PushFetches /\ UNCHANGED notDaemon)
  \/ (PushUpdateSteps /\ UNCHANGED notDaemon)
  \/ (PushWrites /\ UNCHANGED notDaemon)
  \/ (Tick(MaxTime) /\ UNCHANGED notDaemon)

(***************************************************************************)
(* The watcher on its own: raw events for any watched path                 *)
(***************************************************************************)

\* Bound on the raw watcher events of a run of the debounce specification.
MaxRawEvents == 6
\* Bound on the clock of the debounce specification, in steps.
DebounceMaxTicks == 4

\* Paths chokidar reports: ticket files, a sub-issue file, the folder's README.
WatchedPaths ==
  { Path("todo", <<"PAP", "-", "1", "-", "fix-bug", ".md">>),
    Path("done", <<"PAP", "-", "1", "-", "fix-bug", ".md">>),
    Path("todo", <<"PAP", "-", "1", ".", "2", "-", "fix-bug", ".md">>),
    Path("todo", <<"PAP", "-", "2", "-", "add-api", ".md">>),
    Path("todo", <<"README", ".md">>) }

\* chokidar reports an add or unlink under linear-tickets/ to the daemon.
RawEvent(path, kind) ==
  /\ budget > 0
  /\ budget' = budget - 1
  /\ handleFileMove([path |-> path, kind |-> kind])
  /\ UNCHANGED fsEvents

RawEvents == \E path \in WatchedPaths, kind \in {"add", "unlink"} : RawEvent(path, kind)

DebounceInit ==
  /\ remote = [id \in Ids |-> InitIssue(id)]
  /\ hooks = {}
  /\ tree = InitTree
  /\ fsEvents = {}
  /\ timers = {}
  /\ moveDebounceMap = [k \in Ids |-> NoTimer]
  /\ burst = [k \in Ids |-> NoBurst]
  /\ ops = [s \in Slots |-> Idle]
  /\ now = 0
  /\ budget = MaxRawEvents
  /\ dirOrder \in BOOLEAN
  /\ pulled = [id \in Ids |-> NoIssue]
  /\ last = [act |-> "init"]

DebounceNext ==
  \/ (RawEvents /\ UNCHANGED notDaemon)
  \/ (TimerFires /\ UNCHANGED notDaemon)
  \/ (PushFetches /\ UNCHANGED notDaemon)
  \/ (Tick(DebounceMaxTicks * TickMs) /\ UNCHANGED notDaemon)

(***************************************************************************)
(* pushAllTickets (the push command without a ticket id)                   *)
(***************************************************************************)

PushAllIdle == [pc |-> "idle", files |-> {}, pushed |-> 0, skipped |-> 0, errors |-> 0,
                log |-> <<>>]

\* getAllTicketFiles: the .md files of the status folders, README.md left out
getAllTicketFiles(t) ==
  {p \in DOMAIN t : p.name[Len(p.name)] = ".md" /\ p.name # <<"README", ".md">>}

\* Mutant: a file as old as its stored updated_at counts as modified.
IsModifiedSinceSync_NotOlder(mtime, updated_at) == mtime >= DateParse(updated_at)

\* if (fileModifiedTime > lastSyncTime), both as Date values
IsModifiedSinceSync(mtime, updated_at) == mtime > DateParse(updated_at)

\* The first of the files left, in listing order.
NextFile(files, order) ==
  CHOOSE p \in files : \A q \in files : PathRank(p, order) <= PathRank(q, order)

PushAllStart ==
  /\ pushAll.pc = "idle"
  /\ pushAll' = [pushAll EXCEPT !.pc = IF getAllTicketFiles(tree) = {} THEN "done" ELSE "loop",
                                !.files = getAllTicketFiles(tree)]
  /\ last' = [act |-> "pushAllStart"]
  /\ UNCHANGED <<remote, hooks, tree, fsEvents, timers, moveDebounceMap, burst, ops, now,
                 budget, dirOrder, pulled>>

\* One iteration of the loop of pushAllTickets; pushSingleTicket is awaited, so
\* the iteration runs it from findTicketFile to the rewrite of the file.
PushAllStep ==
  /\ pushAll.pc = "loop"
  /\ pushAll.files # {}
  /\ LET filePath == NextFile(pushAll.files, dirOrder)
         exists == filePath \in DOMAIN tree    \* or readFileSync throws ENOENT
         ticket == parseFile(tree[filePath].bytes)
         worthy == exists /\ IsModifiedSinceSync(tree[filePath].mtime,
                                                 ticket.frontmatter.updated_at)
         id == ticket.frontmatter.linear_id
         path == findTicketFile(tree, id, dirOrder)
         ready == PushReady(path)
         local == parseFile(tree[path].bytes)
         rid == local.frontmatter.linear_id
         issue == remote[rid]
         fetched == ready /\ issue.present
         newStateId == findStateIdForFolder(path.folder)
         updates == IF fetched THEN PushUpdates(path, local, newStateId, issue) ELSE {}
         outcome == IF ~exists THEN "error" ELSE IF ~worthy THEN "skipped"
                    ELSE IF fetched THEN "pushed" ELSE "error"
     IN /\ IF worthy /\ updates # {}
             THEN /\ remote' = [remote EXCEPT ![rid] =
                       ApplyUpdates(@, updates, path, local, newStateId, now)]
                  /\ hooks' = hooks \cup {[id |-> rid, action |-> "update"]}
                  /\ tree' = WriteFile(tree, path, PushRewrite(local, now), now)
             ELSE UNCHANGED <<remote, hooks, tree>>
        /\ pushAll' = [pushAll EXCEPT
             !.files = @ \ {filePath},
             !.pushed = IF outcome = "pushed" THEN @ + 1 ELSE @,
             !.skipped = IF outcome = "skipped" THEN @ + 1 ELSE @,
             !.errors = IF outcome = "error" THEN @ + 1 ELSE @,
             !.log = Append(@, [path |-> filePath,
                                mtime |-> IF exists THEN tree[filePath].mtime ELSE 0,
                                updated_at |-> IF exists THEN tree[filePath].bytes.fm.updated_at
                                               ELSE utcToSGT(0),
                                invoked |-> worthy, outcome |-> outcome,
                                fetches |-> IF worthy /\ ready THEN 1 ELSE 0,
                                updateCalls |-> IF worthy /\ updates # {} THEN 1 ELSE 0])]
  /\ pulled' = KeepPulled(tree', remote')
  /\ last' = [act |-> "pushAllStep"]
  /\ UNCHANGED <<fsEvents, timers, moveDebounceMap, burst, ops, now, budget, dirOrder>>

\* The loop is over: the summary line is printed.
PushAllDone ==
  /\ pushAll.pc = "loop"
  /\ pushAll.files = {}
  /\ pushAll' = [pushAll EXCEPT !.pc = "done"]
  /\ last' = [act |-> "pushAllDone"]
  /\ UNCHANGED <<remote, hooks, tree, fsEvents, timers, moveDebounceMap, burst, ops, now,
                 budget, dirOrder, pulled>>

\* The trees the push command may find: each ticket file in either folder, edited
\* or not, with any modification time and any stored updated_at of the clock.
PushAllTimes == {k * TickMs : k \in 0..MaxTicks}

PushAllFile(id, body, stamp, mtime) ==
  [bytes |-> [fm |-> [linear_id |-> id, title |-> "Fix Bug", status |-> "Todo",
                      updated_at |-> utcToSGT(stamp)],
              body |-> body],
   mtime |-> mtime]

PushAllInit ==
  /\ remote = [id \in Ids |-> InitIssue(id)]
  /\ \E folder \in [Ids -> Folders], body \in [Ids -> Descs \cup {" "}],
        stamp \in [Ids -> PushAllTimes], mtime \in [Ids -> PushAllTimes] :
       tree = [p \in {Path(folder[id], generateFilename(id, "Fix Bug", ParentOf(id))) : id \in Ids}
                 |-> LET id == extractLinearIdFromFilename(p.name)
                     IN PushAllFile(id, body[id], stamp[id], mtime[id])]
  /\ hooks = {}
  /\ fsEvents = {}
  /\ timers = {}
  /\ moveDebounceMap = [k \in Ids |-> NoTimer]
  /\ burst = [k \in Ids |-> NoBurst]
  /\ ops = [s \in Slots |-> Idle]
  /\ now = MaxTime
  /\ budget = 0
  /\ dirOrder = FALSE
  /\ pulled = [id \in Ids |-> NoIssue]
  /\ last = [act |-> "init"]
  /\ pushAll = PushAllIdle

PushAllNext ==
  \/ (PushAllStart /\ UNCHANGED <<rvars, ivars, svars, bvars>>)
  \/ (PushAllStep /\ UNCHANGED <<rvars, ivars, svars, bvars>>)
  \/ (PushAllDone /\ UNCHANGED <<rvars, ivars, svars, bvars>>)

NoOutcome == [kind |-> "running", error |-> {}]

RetryIdle ==
  /\ rCfg = DEFAULT_CONFIG
  /\ rPc = "idle"
  /\ rAttempt = 0
  /\ rCalls = 0
  /\ rWaits = <<>>
  /\ rLastErr = {}
  /\ rFailed = <<>>
  /\ rOut = NoOutcome

RetryInit ==
  /\ rCfg \in RetryConfigs
  /\ rPc = "loop"
  /\ rAttempt = 0
  /\ rCalls = 0
  /\ rWaits = <<>>
  /\ rLastErr = {}
  /\ rFailed = <<>>
  /\ rOut = NoOutcome

\* for (attempt ...; attempt < maxAttempts; ...) { try { if (attempt > 0) await sleep(delay)
RetrySleep ==
  /\ rPc = "loop"
  /\ IF rAttempt < rCfg.maxAttempts
       THEN /\ rPc' = "call"
            /\ rWaits' = Append(rWaits, IF rAttempt > 0 THEN RetryDelay(rCfg, rAttempt) ELSE 0)
            /\ UNCHANGED rOut
       ELSE \* throw lastError! after the loop
            /\ rPc' = "done"
            /\ rOut' = [kind |-> "thrown", error |-> rLastErr]
            /\ UNCHANGED rWaits
  /\ UNCHANGED <<rCfg, rAttempt, rCalls, rLastErr, rFailed>>

\* const result = await operation(); return result;
RetryCallOk ==
  /\ rPc = "call"
  /\ rCalls' = rCalls + 1
  /\ rPc' = "done"
  /\ rOut' = [kind |-> "returned", error |-> {}]
  /\ UNCHANGED <<rCfg, rAttempt, rWaits, rLastErr, rFailed>>

\* Mutant: the loop gives up one attempt early.
RetryCallFail_GivesUpEarly(message) ==
  /\ rPc = "call"
  /\ rCalls' = rCalls + 1
  /\ rLastErr' = message
  /\ rFailed' = Append(rFailed, isRetryableError(message))
  /\ IF ~isRetryableError(message) \/ rAttempt = rCfg.maxAttempts - 2
       THEN /\ rPc' = "done"
            /\ rOut' = [kind |-> "thrown", error |-> message]
            /\ UNCHANGED rAttempt
       ELSE /\ rPc' = "loop"
            /\ rAttempt' = rAttempt + 1
            /\ UNCHANGED rOut
  /\ UNCHANGED <<rCfg, rWaits>>

\* Mutant: the error is not classified, every failure is retried.
RetryCallFail_RetriesAll(message) ==
  /\ rPc = "call"
  /\ rCalls' = rCalls + 1
  /\ rLastErr' = message
  /\ rFailed' = Append(rFailed, isRetryableError(message))
  /\ IF rAttempt = rCfg.maxAttempts - 1
       THEN /\ rPc' = "done"
            /\ rOut' = [kind |-> "thrown", error |-> message]
            /\ UNCHANGED rAttempt
       ELSE /\ rPc' = "loop"
            /\ rAttempt' = rAttempt + 1
            /\ UNCHANGED rOut
  /\ UNCHANGED <<rCfg, rWaits>>

\* catch (error) { ... }
RetryCallFail(message) ==
  /\ rPc = "call"
  /\ rCalls' = rCalls + 1
  /\ rLastErr' = message
  /\ rFailed' = Append(rFailed, isRetryableError(message))
  /\ IF ~isRetryableError(message) \/ rAttempt = rCfg.maxAttempts - 1
       THEN /\ rPc' = "done"
            /\ rOut' = [kind |-> "thrown", error |-> message]
            /\ UNCHANGED rAttempt
       ELSE /\ rPc' = "loop"
            /\ rAttempt' = rAttempt + 1
            /\ UNCHANGED rOut
  /\ UNCHANGED <<rCfg, rWaits>>

RetryFail == \E message \in ErrorMessages : RetryCallFail(message)

RetryNext ==
  \/ (RetrySleep /\ UNCHANGED <<dvars, pushAll, ivars, svars, bvars>>)
  \/ (RetryCallOk /\ UNCHANGED <<dvars, pushAll, ivars, svars, bvars>>)
  \/ (RetryFail /\ UNCHANGED <<dvars, pushAll, ivars, svars, bvars>>)

(***************************************************************************)
(* POST /webhook: dispatch, syncTicket, handleTicketDeletion, the response *)
(***************************************************************************)

\* Bound on the notifications Linear posts in a run.
MaxRequests == 2
\* await new Promise(resolve => setTimeout(resolve, 2000)) for a created comment
COMMENT_GRACE_MS == 2000

ReqSlots == 1..MaxRequests
NoResponse == 0
HTTP_OK == 200
HTTP_ERROR == 500

\* req.body: { action, type, data }. An Issue payload carries data.identifier, a
\* Comment payload data.issue.identifier; a payload may also carry neither.
Bodies ==
  { b \in [action : {"create", "update", "remove", "restore"},
           type : {"Issue", "Comment"},
           where : {"data", "issue", "none"},
           id : Ids \cup {NoId}] :
      /\ (b.where = "none") = (b.id = NoId)
      /\ b.where = "data" => b.type = "Issue"
      /\ b.where = "issue" => b.type = "Comment" }

\* const ticketId = data?.identifier || data?.issue?.identifier
WebhookTicketId(body) == IF body.where = "none" THEN NoId ELSE body.id

NoBody == [action |-> "none", type |-> "none", where |-> "none", id |-> NoId]

\* A request slot nothing was posted to yet.
NoRequest ==
  [pc |-> "free", body |-> NoBody, ticketId |-> NoId, outer |-> 0, inner |-> 0,
   response |-> NoResponse, syncs |-> 0, deletes |-> 0, fetches |-> 0, waited |-> 0,
   transient |-> TRUE, removed |-> FALSE]

IngestIdle == reqs = [s \in ReqSlots |-> NoRequest]

NextRequestSlot == CHOOSE s \in ReqSlots : reqs[s].pc = "free" /\ \A r \in ReqSlots : reqs[r].pc = "free" => s <= r

\* The errors a request to Linear fails with: a network error (retryable) and
\* an authentication error (fatal); "Issue ... not found" matches no keyword.
FetchErrors == {{NetworkWords}, {AuthWords}}
NotFoundError == {}
\* How a request to Linear ends: it returns, or it throws one of the errors.
FetchOutcomes ==
  {[ok |-> TRUE, message |-> {}]} \cup {[ok |-> FALSE, message |-> m] : m \in FetchErrors}

\* Mutant: every action but remove is taken for a change of the ticket.
Dispatch_AnyAction(body) ==
  IF body.action # "remove" /\ WebhookTicketId(body) # NoId THEN "sync"
  ELSE IF body.action = "remove" /\ WebhookTicketId(body) # NoId THEN "delete"
  ELSE "ignore"

\* The branch of the handler a body takes.
Dispatch(body) ==
  IF body.action \in {"update", "create"} /\ WebhookTicketId(body) # NoId THEN "sync"
  ELSE IF body.action = "remove" /\ WebhookTicketId(body) # NoId THEN "delete"
  ELSE "ignore"

\* app.post('/webhook', ...) up to its first await.
PostWebhook(body) ==
  /\ \E s \in ReqSlots : reqs[s].pc = "free"
  /\ LET s == NextRequestSlot
         ticketId == WebhookTicketId(body)
         fresh == [NoRequest EXCEPT !.body = body, !.ticketId = ticketId]
     IN /\ reqs' = [reqs EXCEPT ![s] =
              IF Dispatch(body) = "sync"
                THEN IF body.action = "create" /\ body.type = "Comment"
                       THEN [fresh EXCEPT !.pc = "grace"]
                       ELSE [fresh EXCEPT !.pc = "fetch", !.syncs = 1]
              ELSE IF Dispatch(body) = "delete"
                THEN [fresh EXCEPT !.pc = "remove", !.deletes = 1]
              ELSE [fresh EXCEPT !.pc = "done", !.response = HTTP_OK]]
        /\ last' = [act |-> "ingest"]
  /\ UNCHANGED <<remote, hooks, tree, fsEvents, timers, moveDebounceMap, burst, ops, now,
                 budget, dirOrder, pulled>>

\* The grace period of a created comment is over: await this.syncTicket(...)
GraceOver(s) ==
  /\ reqs[s].pc = "grace"
  /\ reqs' = [reqs EXCEPT ![s] = [@ EXCEPT !.pc = "fetch", !.syncs = @ + 1,
                                           !.waited = @ + COMMENT_GRACE_MS]]
  /\ last' = [act |-> "ingest"]
  /\ UNCHANGED <<remote, hooks, tree, fsEvents, timers, moveDebounceMap, burst, ops, now,
                 budget, dirOrder, pulled>>

\* A failed request of getIssue inside pullSingleTicket inside syncTicket: the
\* withRetry of getIssue, around it the withRetry of syncTicket, around it the
\* try/catch of the handler.
FetchFailed(r, message) ==
  LET retryable == isRetryableError(message)
      lastInner == r.inner = DEFAULT_CONFIG.maxAttempts - 1
      lastOuter == r.outer = DEFAULT_CONFIG.maxAttempts - 1
  IN IF retryable /\ ~lastInner
       THEN [r EXCEPT !.pc = "sleep", !.inner = @ + 1]
     ELSE IF retryable /\ ~lastOuter
       THEN [r EXCEPT !.pc = "sleep", !.outer = @ + 1, !.inner = 0]
     ELSE [r EXCEPT !.pc = "done", !.response = HTTP_ERROR, !.transient = retryable]

\* The request of getIssue returns: the pull writes its file, or the error is handled.
SyncFetch(s, outcome) ==
  /\ reqs[s].pc = "fetch"
  /\ LET r == [reqs[s] EXCEPT !.fetches = @ + 1]
         id == r.ticketId
     IN IF outcome.ok /\ remote[id].present
          THEN /\ tree' = PullApply(tree, remote[id], dirOrder, now)
               /\ reqs' = [reqs EXCEPT ![s] = [r EXCEPT !.pc = "notify"]]
        ELSE /\ tree' = tree
             /\ reqs' = [reqs EXCEPT ![s] =
                           FetchFailed(r, IF outcome.ok THEN NotFoundError ELSE outcome.message)]
  /\ last' = [act |-> "ingest"]
  /\ UNCHANGED <<remote, hooks, fsEvents, timers, moveDebounceMap, burst, ops, now,
                 budget, dirOrder, pulled>>

\* await this.sleep(delay) of withRetry is over: of the withRetry of getIssue when
\* inner > 0, of the withRetry of syncTicket when the operation starts again.
SyncWake(s) ==
  /\ reqs[s].pc = "sleep"
  /\ reqs' = [reqs EXCEPT ![s] =
       [@ EXCEPT !.pc = "fetch",
                 !.waited = @ + RetryDelay(DEFAULT_CONFIG,
                                           IF reqs[s].inner > 0 THEN reqs[s].inner
                                           ELSE reqs[s].outer)]]
  /\ last' = [act |-> "ingest"]
  /\ UNCHANGED <<remote, hooks, tree, fsEvents, timers, moveDebounceMap, burst, ops, now,
                 budget, dirOrder, pulled>>

\* Mutant: a notification that fails throws into the withRetry of syncTicket.
SyncNotify_Propagates(s, sent) ==
  /\ reqs[s].pc = "notify"
  /\ reqs' = [reqs EXCEPT ![s] =
       IF sent THEN [@ EXCEPT !.pc = "done", !.response = HTTP_OK]
       ELSE FetchFailed(@, {NetworkWords})]
  /\ last' = [act |-> "notify", slot |-> s, sent |-> sent]
  /\ UNCHANGED <<remote, hooks, tree, fsEvents, timers, moveDebounceMap, burst, ops, now,
                 budget, dirOrder, pulled>>

\* sendSlackNotification: its getIssue, the building of the event and
\* sendWebhookNotification are inside one try/catch that logs (sent is FALSE
\* when any of them failed); then res.status(200).send('OK')
SyncNotify(s, sent) ==
  /\ reqs[s].pc = "notify"
  /\ reqs' = [reqs EXCEPT ![s] = [@ EXCEPT !.pc = "done", !.response = HTTP_OK]]
  /\ last' = [act |-> "notify", slot |-> s, sent |-> sent]
  /\ UNCHANGED <<remote, hooks, tree, fsEvents, timers, moveDebounceMap, burst, ops, now,
                 budget, dirOrder, pulled>>

\* Mutant: a file that is not found is reported as an error of the request.
DeleteRemove_ThrowsNotFound(s, fsError, sent) ==
  /\ reqs[s].pc = "remove"
  /\ tree' = IF fsError THEN tree ELSE removeLocalTicketFile(tree, reqs[s].ticketId, dirOrder)
  /\ reqs' = [reqs EXCEPT ![s] = [@ EXCEPT !.pc = "done",
                                           !.response = IF tree' = tree THEN HTTP_ERROR
                                                        ELSE HTTP_OK,
                                           !.removed = (tree' # tree)]]
  /\ last' = [act |-> "remove", slot |-> s, id |-> reqs[s].ticketId, treeWas |-> tree,
              fsError |-> fsError, sent |-> sent]
  /\ UNCHANGED <<remote, hooks, fsEvents, timers, moveDebounceMap, burst, ops, now,
                 budget, dirOrder, pulled>>

\* handleTicketDeletion: removeLocalTicketFile (loadConfig, readdirSync and
\* unlinkSync inside one try/catch that logs: fsError is TRUE when one of them
\* throws), sendDeletionNotification (its own failure is caught, sent is FALSE
\* then), res.status(200).send('OK')
DeleteRemove(s, fsError, sent) ==
  /\ reqs[s].pc = "remove"
  /\ tree' = IF fsError THEN tree ELSE removeLocalTicketFile(tree, reqs[s].ticketId, dirOrder)
  /\ reqs' = [reqs EXCEPT ![s] = [@ EXCEPT !.pc = "done", !.response = HTTP_OK,
                                           !.removed = (tree' # tree)]]
  /\ last' = [act |-> "remove", slot |-> s, id |-> reqs[s].ticketId, treeWas |-> tree,
              fsError |-> fsError, sent |-> sent]
  /\ UNCHANGED <<remote, hooks, fsEvents, timers, moveDebounceMap, burst, ops, now,
                 budget, dirOrder, pulled>>

PostWebhooks == \E body \in Bodies : PostWebhook(body)
GraceOvers == \E s \in ReqSlots : GraceOver(s)
SyncFetches == \E s \in ReqSlots, outcome \in FetchOutcomes : SyncFetch(s, outcome)
SyncWakes == \E s \in ReqSlots : SyncWake(s)
SyncNotifies == \E s \in ReqSlots, sent \in BOOLEAN : SyncNotify(s, sent)
DeleteRemoves == \E s \in ReqSlots, fsError \in BOOLEAN, sent \in BOOLEAN : DeleteRemove(s, fsError, sent)

\* The issues Linear may hold when the notifications arrive.
IngestIssues(id) ==
  {InitIssue(id), NoIssue} \cup
  (IF ParentOf(id) = NoId THEN {[InitIssue(id) EXCEPT !.state = "Done"]} ELSE {})

IngestInit ==
  /\ remote \in [Ids -> UNION {IngestIssues(id) : id \in Ids}]
  /\ \A id \in Ids : remote[id] \in IngestIssues(id)
  /\ hooks = {}
  /\ tree = InitTree
  /\ fsEvents = {}
  /\ timers = {}
  /\ moveDebounceMap = [k \in Ids |-> NoTimer]
  /\ burst = [k \in Ids |-> NoBurst]
  /\ ops = [s \in Slots |-> Idle]
  /\ now = 0
  /\ budget = 0
  /\ dirOrder = FALSE
  /\ pulled = [id \in Ids |-> NoIssue]
  /\ last = [act |-> "init"]
  /\ IngestIdle

notIngest == <<rvars, pushAll, svars, bvars>>

IngestNext ==
  \/ (PostWebhooks /\ UNCHANGED notIngest)
  \/ (GraceOvers /\ UNCHANGED notIngest)
  \/ (SyncFetches /\ UNCHANGED notIngest)
  \/ (SyncWakes /\ UNCHANGED notIngest)
  \/ (SyncNotifies /\ UNCHANGED notIngest)
  \/ (DeleteRemoves /\ UNCHANGED notIngest)

(***************************************************************************)
(* The tunnel session: start, rotation, cool-down, registration, shutdown  *)
(***************************************************************************)

\* Bound on the failures of ngrok and of Linear's webhook API in a run.
MaxFaults == 2
\* Bound on the file events the watcher reports in a session run.
MaxSessionEvents == 1

ROTATE_MINUTES == 55
COOLDOWN_MINUTES == 5
ROTATE_MS == ROTATE_MINUTES * 60 * 1000
COOLDOWN_MS == COOLDOWN_MINUTES * 60 * 1000

\* config.teamId
TEAM == "team"
NoUrl == 0
NoWebhookId == 0
NoSessionTimer == [kind |-> "none", due |-> 0]

\* const webhookUrl = this.ngrokUrl + '/webhook'
WebhookUrl(tunnelUrl) == [ngrok |-> TRUE, base |-> tunnelUrl, path |-> "/webhook"]

\* Webhooks Linear may hold before the daemon starts: one of another team, and
\* one this tool registered in an earlier run.
ForeignHook == [id |-> 1, team |-> "other", url |-> WebhookUrl(90)]
StaleHook == [id |-> 2, team |-> TEAM, url |-> WebhookUrl(91)]
FirstFreshId == 3

\* existingWebhooks.find(w => w.team?.id === input.teamId && w.url.includes('ngrok'))
OurWebhooks(registry) == {w \in registry : w.team = TEAM /\ w.url.ngrok}

\* Mutant: the registration always creates a new webhook.
upsertWebhook_AlwaysCreate(registry, url, freshId) ==
  [registry |-> registry \cup {[id |-> freshId, team |-> TEAM, url |-> url]},
   id |-> freshId, created |-> TRUE]

\* LinearSyncClient.upsertWebhook: the registry after the call and the id returned.
upsertWebhook(registry, url, freshId) ==
  LET ours == OurWebhooks(registry)
  IN IF ours # {}
       THEN LET w == CHOOSE x \in ours : \A y \in ours : x.id <= y.id
            IN [registry |-> (registry \ {w}) \cup {[w EXCEPT !.url = url]},
                id |-> w.id, created |-> FALSE]
     ELSE [registry |-> registry \cup {[id |-> freshId, team |-> TEAM, url |-> url]},
           id |-> freshId, created |-> TRUE]

SessionIdle ==
  /\ daemon = [ngrokUrl |-> NoUrl, webhookId |-> NoWebhookId, restartTimer |-> NoSessionTimer,
               server |-> "none", fileWatcher |-> FALSE]
  /\ ngrok = NoUrl
  /\ webhooks = {}
  /\ stimers = {}
  /\ proc = [run |-> "alive", exitCode |-> 0, pidFile |-> TRUE, start |-> "connect",
             rot |-> "idle", stop |-> "none", stopHookId |-> NoWebhookId,
             listening |-> 0, listenError |-> FALSE, watching |-> FALSE]
  /\ env = [faults |-> 0, nextUrl |-> 1, nextHookId |-> FirstFreshId]
  /\ shist = [failedAt |-> 0 - 1, failures |-> 0, registrations |-> 0, registered |-> NoUrl,
              afterStop |-> {}, stopFailed |-> {}, killed |-> {}, atStop |-> {}]

\* The process runs, and no uncaught error is about to end it.
Alive == proc.run = "alive" /\ ~proc.listenError

\* stop() has cleared the rotation timer and the debounce timers.
Cancelled == proc.stop \in {"disconnect", "deregister"}

\* An await on ngrok or Linear fails only while failures are left.
MayFail(ok) == ok \/ env.faults > 0
Spend(e, ok) == IF ok THEN e ELSE [e EXCEPT !.faults = @ - 1]

sessionFrame == <<remote, hooks, tree, fsEvents, burst, ops, budget, dirOrder, pulled>>
notSession == <<rvars, pushAll, ivars, bvars>>

\* The process ends with an uncaught error.
Crashed(p) == [p EXCEPT !.run = "crashed", !.exitCode = 1]

\* this.restartTimer = setTimeout(..., 55 * 60 * 1000)
RestartTimer == [kind |-> "restart", due |-> now + ROTATE_MS]
CooldownTimer == [kind |-> "cooldown", due |-> now + COOLDOWN_MS]

\* startServer: app.listen(3001) binds the port, or fails when it is bound.
StartServer(p) ==
  IF p.listening > 0 THEN [p EXCEPT !.listenError = TRUE]
  ELSE [p EXCEPT !.listening = 1, !.watching = TRUE]

Note(h, what) == IF Cancelled THEN [h EXCEPT !.afterStop = @ \cup {what}] ELSE h

\* startSession of start(): this.ngrokUrl = await ngrok.connect(3001)
StartConnect(ok) ==
  /\ Alive /\ proc.start = "connect" /\ MayFail(ok)
  /\ env' = IF ok THEN [env EXCEPT !.nextUrl = @ + 1] ELSE Spend(env, ok)
  /\ ngrok' = IF ok THEN env.nextUrl ELSE ngrok
  /\ daemon' = IF ok THEN [daemon EXCEPT !.ngrokUrl = env.nextUrl] ELSE daemon
  /\ proc' = IF ok THEN [proc EXCEPT !.start = "register"] ELSE Crashed(proc)
  /\ last' = [act |-> "session"]
  /\ UNCHANGED <<webhooks, stimers, shist, now, timers, moveDebounceMap, sessionFrame>>

\* The effect of a successful updateWebhook; startServer(); then scheduleRestart().
Registered(d, result, failed) ==
  [d EXCEPT !.webhookId = result.id, !.restartTimer = RestartTimer,
            !.server = IF failed THEN "unbound" ELSE "bound",
            !.fileWatcher = IF failed THEN @ ELSE TRUE]

\* startSession of start(): await this.updateWebhook(); this.startServer();
\* then start() goes on: this.scheduleRestart(); this.savePID()
StartRegister(ok) ==
  /\ Alive /\ proc.start = "register" /\ MayFail(ok)
  /\ env' = IF ok THEN [env EXCEPT !.nextHookId = @ + 1] ELSE Spend(env, ok)
  /\ LET result == upsertWebhook(webhooks, WebhookUrl(daemon.ngrokUrl), env.nextHookId)
     IN IF ok
          THEN /\ webhooks' = result.registry
               /\ daemon' = Registered(daemon, result, proc.listening > 0)
               /\ proc' = [StartServer(proc) EXCEPT !.start = "done", !.pidFile = TRUE]
               /\ stimers' = stimers \cup {RestartTimer}
               /\ shist' = Note([shist EXCEPT !.registrations = @ + 1,
                                              !.registered = WebhookUrl(daemon.ngrokUrl)],
                                "armRestart")
               /\ last' = [act |-> "register", before |-> webhooks, id |-> result.id,
                           url |-> WebhookUrl(daemon.ngrokUrl)]
          ELSE /\ proc' = Crashed(proc)
               /\ last' = [act |-> "session"]
               /\ UNCHANGED <<webhooks, daemon, stimers, shist>>
  /\ UNCHANGED <<ngrok, now, timers, moveDebounceMap, sessionFrame>>

\* The rotation timer fires: the callback of scheduleRestart begins.
RestartFire(t) ==
  /\ Alive /\ t \in stimers /\ t.kind = "restart" /\ t.due <= now
  /\ proc.rot = "idle"
  /\ stimers' = stimers \ {t}
  /\ proc' = [proc EXCEPT !.rot = "disconnect"]
  /\ shist' = Note(shist, "rotate")
  /\ last' = [act |-> "rotate", failedAt |-> shist.failedAt, at |-> now]
  /\ UNCHANGED <<daemon, ngrok, webhooks, env, now, timers, moveDebounceMap, sessionFrame>>

\* catch of the callback: setTimeout(() => this.scheduleRestart(), 5 * 60 * 1000)
RotationFailed ==
  /\ stimers' = stimers \cup {CooldownTimer}
  /\ proc' = [proc EXCEPT !.rot = "idle"]
  /\ shist' = Note([shist EXCEPT !.failedAt = now, !.failures = @ + 1], "armCooldown")

\* await ngrok.disconnect() of the callback
RotDisconnect(ok) ==
  /\ Alive /\ proc.rot = "disconnect" /\ MayFail(ok)
  /\ env' = Spend(env, ok)
  /\ IF ok
       THEN /\ ngrok' = NoUrl
            /\ proc' = [proc EXCEPT !.rot = "connect"]
            /\ UNCHANGED <<stimers, shist>>
       ELSE /\ RotationFailed
            /\ UNCHANGED ngrok
  /\ last' = [act |-> "session"]
  /\ UNCHANGED <<daemon, webhooks, now, timers, moveDebounceMap, sessionFrame>>

\* startSession of the callback: this.ngrokUrl = await ngrok.connect(3001)
RotConnect(ok) ==
  /\ Alive /\ proc.rot = "connect" /\ MayFail(ok)
  /\ env' = IF ok THEN [env EXCEPT !.nextUrl = @ + 1] ELSE Spend(env, ok)
  /\ IF ok
       THEN /\ ngrok' = env.nextUrl
            /\ daemon' = [daemon EXCEPT !.ngrokUrl = env.nextUrl]
            /\ proc' = [proc EXCEPT !.rot = "register"]
            /\ UNCHANGED <<stimers, shist>>
       ELSE /\ RotationFailed
            /\ UNCHANGED <<ngrok, daemon>>
  /\ last' = [act |-> "session"]
  /\ UNCHANGED <<webhooks, now, timers, moveDebounceMap, sessionFrame>>

\* startSession of the callback: await this.updateWebhook(); this.startServer();
\* then the callback goes on: this.scheduleRestart()
RotRegister(ok) ==
  /\ Alive /\ proc.rot = "register" /\ MayFail(ok)
  /\ env' = IF ok THEN [env EXCEPT !.nextHookId = @ + 1] ELSE Spend(env, ok)
  /\ LET result == upsertWebhook(webhooks, WebhookUrl(daemon.ngrokUrl), env.nextHookId)
     IN IF ok
          THEN /\ webhooks' = result.registry
               /\ daemon' = Registered(daemon, result, proc.listening > 0)
               /\ proc' = [StartServer(proc) EXCEPT !.rot = "idle"]
               /\ stimers' = stimers \cup {RestartTimer}
               /\ shist' = Note([shist EXCEPT !.registrations = @ + 1, !.failedAt = 0 - 1,
                                              !.registered = WebhookUrl(daemon.ngrokUrl)],
                                "armRestart")
               /\ last' = [act |-> "register", before |-> webhooks, id |-> result.id,
                           url |-> WebhookUrl(daemon.ngrokUrl)]
          ELSE /\ RotationFailed
               /\ last' = [act |-> "session"]
               /\ UNCHANGED <<webhooks, daemon>>
  /\ UNCHANGED <<ngrok, now, timers, moveDebounceMap, sessionFrame>>

\* The cool-down timer fires: this.scheduleRestart()
CooldownFire(t) ==
  /\ Alive /\ t \in stimers /\ t.kind = "cooldown" /\ t.due <= now
  /\ stimers' = (stimers \ {t}) \cup {RestartTimer}
  /\ daemon' = [daemon EXCEPT !.restartTimer = RestartTimer]
  /\ shist' = Note(shist, "armRestart")
  /\ last' = [act |-> "session"]
  /\ UNCHANGED <<ngrok, webhooks, proc, env, now, timers, moveDebounceMap, sessionFrame>>

\* The 'error' event of a server whose listen failed has no listener.
ListenCrash ==
  /\ proc.run = "alive" /\ proc.listenError
  /\ proc' = Crashed(proc)
  /\ last' = [act |-> "session"]
  /\ UNCHANGED <<daemon, ngrok, webhooks, stimers, env, shist, now, timers, moveDebounceMap,
                 sessionFrame>>

\* stop() from "Clear debounce timers" to server.close()
StopCleared(p) ==
  [p EXCEPT !.stop = "disconnect", !.watching = FALSE,
            !.listening = IF daemon.server = "bound" THEN 0 ELSE @]

\* SIGINT or SIGTERM: stop() up to its first await.
StopSignal ==
  /\ Alive /\ proc.stop = "none"
  /\ stimers' = stimers \ {daemon.restartTimer}
  /\ IF daemon.fileWatcher
       THEN /\ proc' = [proc EXCEPT !.stop = "close"]
            /\ UNCHANGED <<timers, moveDebounceMap>>
       ELSE /\ proc' = StopCleared(proc)
            /\ timers' = {}
            /\ moveDebounceMap' = [k \in Ids |-> NoTimer]
  /\ shist' = [shist EXCEPT !.atStop = {s \in Slots : ops[s] # Idle}]
  /\ last' = [act |-> "session"]
  /\ UNCHANGED <<daemon, ngrok, webhooks, env, now, sessionFrame>>

\* stop(): await this.fileWatcher.close() is over
StopClose ==
  /\ Alive /\ proc.stop = "close"
  /\ proc' = StopCleared(proc)
  /\ timers' = {}
  /\ moveDebounceMap' = [k \in Ids |-> NoTimer]
  /\ last' = [act |-> "session"]
  /\ UNCHANGED <<daemon, ngrok, webhooks, stimers, env, shist, now, sessionFrame>>

\* The end of stop() and process.exit(0) of the signal handler.
Exited(p) == [p EXCEPT !.run = "exited", !.exitCode = 0, !.pidFile = FALSE, !.stop = "done"]
KilledOps(h) == [h EXCEPT !.killed = {s \in h.atStop : ops[s] # Idle}]

\* Mutant: an error of ngrok.disconnect() leaves stop().
StopDisconnect_Throws(ok) ==
  /\ Alive /\ proc.stop = "disconnect" /\ MayFail(ok)
  /\ env' = Spend(env, ok)
  /\ ngrok' = IF ok THEN NoUrl ELSE ngrok
  /\ IF ~ok
       THEN /\ proc' = Crashed(proc)
            /\ shist' = [shist EXCEPT !.stopFailed = @ \cup {"disconnect"}]
       ELSE IF daemon.webhookId # NoWebhookId
         THEN /\ proc' = [proc EXCEPT !.stop = "deregister", !.stopHookId = daemon.webhookId]
              /\ shist' = shist
       ELSE /\ proc' = Exited(proc)
            /\ shist' = KilledOps(shist)
  /\ last' = [act |-> "session"]
  /\ UNCHANGED <<daemon, webhooks, stimers, now, timers, moveDebounceMap, sessionFrame>>

\* stop(): try { await ngrok.disconnect() } catch { log }; if (this.webhookId) ...
StopDisconnect(ok) ==
  /\ Alive /\ proc.stop = "disconnect" /\ MayFail(ok)
  /\ env' = Spend(env, ok)
  /\ ngrok' = IF ok THEN NoUrl ELSE ngrok
  /\ LET h == IF ok THEN shist ELSE [shist EXCEPT !.stopFailed = @ \cup {"disconnect"}]
     IN IF daemon.webhookId # NoWebhookId
          THEN /\ proc' = [proc EXCEPT !.stop = "deregister", !.stopHookId = daemon.webhookId]
               /\ shist' = h
          ELSE /\ proc' = Exited(proc)
               /\ shist' = KilledOps(h)
  /\ last' = [act |-> "session"]
  /\ UNCHANGED <<daemon, webhooks, stimers, now, timers, moveDebounceMap, sessionFrame>>

\* stop(): try { await client.deleteWebhook(this.webhookId) } catch { log };
\* unlinkSync of the PID file; then process.exit(0)
StopDeregister(ok) ==
  /\ Alive /\ proc.stop = "deregister" /\ MayFail(ok)
  /\ env' = Spend(env, ok)
  /\ webhooks' = IF ok THEN {w \in webhooks : w.id # proc.stopHookId} ELSE webhooks
  /\ proc' = Exited(proc)
  /\ shist' = KilledOps(IF ok THEN shist
                        ELSE [shist EXCEPT !.stopFailed = @ \cup {"deregister"}])
  /\ last' = [act |-> "session"]
  /\ UNCHANGED <<daemon, ngrok, stimers, now, timers, moveDebounceMap, sessionFrame>>

\* Time passes until the next timer is due.
SessionDues == {t.due : t \in stimers} \cup {tm.due : tm \in timers}
SessionAdvance ==
  /\ Alive
  /\ SessionDues # {}
  /\ \A d \in SessionDues : d > now
  /\ now' = CHOOSE d \in SessionDues : \A e \in SessionDues : d <= e
  /\ last' = [act |-> "session"]
  /\ UNCHANGED <<daemon, ngrok, webhooks, stimers, proc, env, shist, timers, moveDebounceMap,
                 sessionFrame>>

\* The watcher, the debounce timers and the pushes of the running daemon.
SessionWatch ==
  /\ Alive
  /\ \/ (proc.watching /\ RawEvents /\ shist' = shist)
     \/ (TimerFires /\ shist' = Note(shist, "push"))
     \/ (PushFetches /\ shist' = shist)
     \/ (PushUpdateSteps /\ shist' = shist)
     \/ (PushWrites /\ shist' = shist)
  /\ UNCHANGED <<daemon, ngrok, webhooks, stimers, proc, env>>

StartConnects == \E ok \in BOOLEAN : StartConnect(ok)
StartRegisters == \E ok \in BOOLEAN : StartRegister(ok)
RestartFires == \E t \in stimers : RestartFire(t)
RotDisconnects == \E ok \in BOOLEAN : RotDisconnect(ok)
RotConnects == \E ok \in BOOLEAN : RotConnect(ok)
RotRegisters == \E ok \in BOOLEAN : RotRegister(ok)
CooldownFires == \E t \in stimers : CooldownFire(t)
StopDisconnects == \E ok \in BOOLEAN : StopDisconnect(ok)
StopDeregisters == \E ok \in BOOLEAN : StopDeregister(ok)

\* The rotation: the timers and the steps of the callback of scheduleRestart.
Rotation ==
  \/ RestartFires
  \/ RotDisconnects
  \/ RotConnects
  \/ RotRegisters
  \/ CooldownFires

SessionInit ==
  /\ remote = [id \in Ids |-> InitIssue(id)]
  /\ hooks = {}
  /\ tree = InitTree
  /\ fsEvents = {}
  /\ timers = {}
  /\ moveDebounceMap = [k \in Ids |-> NoTimer]
  /\ burst = [k \in Ids |-> NoBurst]
  /\ ops = [s \in Slots |-> Idle]
  /\ now = 0
  /\ budget = MaxSessionEvents
  /\ dirOrder = FALSE
  /\ pulled = [id \in Ids |-> NoIssue]
  /\ last = [act |-> "init"]
  /\ daemon = [ngrokUrl |-> NoUrl, webhookId |-> NoWebhookId, restartTimer |-> NoSessionTimer,
               server |-> "none", fileWatcher |-> FALSE]
  /\ ngrok = NoUrl
  /\ webhooks \in {{ForeignHook}, {ForeignHook, StaleHook}}
  /\ stimers = {}
  /\ proc = [run |-> "alive", exitCode |-> 0, pidFile |-> TRUE, start |-> "connect",
             rot |-> "idle", stop |-> "none", stopHookId |-> NoWebhookId,
             listening |-> 0, listenError |-> FALSE, watching |-> FALSE]
  /\ env = [faults |-> MaxFaults, nextUrl |-> 1, nextHookId |-> FirstFreshId]
  /\ shist = [failedAt |-> 0 - 1, failures |-> 0, registrations |-> 0, registered |-> NoUrl,
              afterStop |-> {}, stopFailed |-> {}, killed |-> {}, atStop |-> {}]

SessionNext ==
  \/ (StartConnects /\ UNCHANGED notSession)
  \/ (StartRegisters /\ UNCHANGED notSession)
  \/ (Rotation /\ UNCHANGED notSession)
  \/ (ListenCrash /\ UNCHANGED notSession)
  \/ (StopSignal /\ UNCHANGED notSession)
  \/ (StopClose /\ UNCHANGED notSession)
  \/ (StopDisconnects /\ UNCHANGED notSession)
  \/ (StopDeregisters /\ UNCHANGED notSession)
  \/ (SessionAdvance /\ UNCHANGED notSession)
  \/ (SessionWatch /\ UNCHANGED notSession)

(***************************************************************************)
(* The watcher and the pushes under local changes: moves, edits, deletions *)
(***************************************************************************)

\* The local user deletes a ticket file.
UserDelete(p) ==
  /\ budget > 0
  /\ p \in DOMAIN tree
  /\ tree' = Unlink(tree, p)
  /\ fsEvents' = fsEvents \cup WatchEvents(tree, tree')
  /\ budget' = budget - 1
  /\ pulled' = KeepPulled(tree', remote)
  /\ last' = [act |-> "env"]
  /\ UNCHANGED <<remote, hooks, timers, moveDebounceMap, burst, ops, now, dirOrder>>

UserDeletes == \E p \in DOMAIN tree : UserDelete(p)

WatchNext ==
  \/ (UserDeletes /\ UNCHANGED notDaemon)
  \/ (UserMoves /\ UNCHANGED notDaemon)
  \/ (UserEdits /\ UNCHANGED notDaemon)
  \/ (WatcherDelivers /\ UNCHANGED notDaemon)
  \/ (TimerFires /\ UNCHANGED notDaemon)
  \/ (PushFetches /\ UNCHANGED notDaemon)
  \/ (PushUpdateSteps /\ UNCHANGED notDaemon)
  \/ (PushWrites /\ UNCHANGED notDaemon)
  \/ (Tick(MaxTime) /\ UNCHANGED notDaemon)

(***************************************************************************)
(* The daemon after one external change, until it is at rest               *)
(***************************************************************************)

\* The descriptions Linear may hold: a plain one, none, one with blanks around it.
PullPushDescs == {"d1", "", " d1 "}

\* Time goes on past the bound of the clock while a debounce timer is pending.
TickPending ==
  /\ now >= MaxTime
  /\ timers # {}
  /\ \A tm \in timers : tm.due > now
  /\ now' = now + TickMs
  /\ last' = [act |-> "tick"]
  /\ UNCHANGED <<remote, hooks, tree, fsEvents, timers, moveDebounceMap, burst, ops, budget,
                 dirOrder, pulled>>

\* Local tree and Linear agree: each file is as a pull of its issue wrote it,
\* whatever the description of the issue; one external change is to come.
SettleInit ==
  /\ \E d \in PullPushDescs :
       remote = [id \in Ids |-> [InitIssue(id) EXCEPT !.description = d]]
  /\ tree = [p \in {PullTarget(remote[id]) : id \in Ids} |->
               [bytes |-> generateFile(convertLinearIssueToTicket(
                             remote[extractLinearIdFromFilename(p.name)])),
                mtime |-> 0]]
  /\ hooks = {}
  /\ fsEvents = {}
  /\ timers = {}
  /\ moveDebounceMap = [k \in Ids |-> NoTimer]
  /\ burst = [k \in Ids |-> NoBurst]
  /\ ops = [s \in Slots |-> Idle]
  /\ now = 0
  /\ budget = 1
  /\ dirOrder = FALSE
  /\ pulled = [id \in Ids |-> NoIssue]
  /\ last = [act |-> "init"]

SettleNext ==
  \/ (RemoteEdits /\ UNCHANGED notDaemon)
  \/ (RemoteDeletes /\ UNCHANGED notDaemon)
  \/ (UserMoves /\ UNCHANGED notDaemon)
  \/ (UserEdits /\ UNCHANGED notDaemon)
  \/ (WebhookPulls /\ UNCHANGED notDaemon)
  \/ (WebhookRemoves /\ UNCHANGED notDaemon)
  \/ (PullWrites /\ UNCHANGED notDaemon)
  \/ (WatcherDelivers /\ UNCHANGED notDaemon)
  \/ (TimerFires /\ UNCHANGED notDaemon)
  \/ (PushFetches /\ UNCHANGED notDaemon)
  \/ (PushUpdateSteps /\ UNCHANGED notDaemon)
  \/ (PushWrites /\ UNCHANGED notDaemon)
  \/ (Tick(MaxTime) /\ UNCHANGED notDaemon)
  \/ (TickPending /\ UNCHANGED notDaemon)

\* What the event loop, the clock and the network do in the end: a queued
\* notification is handled, a response arrives, a reported event is
\* delivered, time passes and a timer that is due fires.
SettleFairness ==
  /\ WF_vars(WebhookPulls /\ UNCHANGED notDaemon)
  /\ WF_vars(WebhookRemoves /\ UNCHANGED notDaemon)
  /\ WF_vars(PullWrites /\ UNCHANGED notDaemon)
  /\ WF_vars(WatcherDelivers /\ UNCHANGED notDaemon)
  /\ WF_vars(TimerFires /\ UNCHANGED notDaemon)
  /\ WF_vars(PushFetches /\ UNCHANGED notDaemon)
  /\ WF_vars(PushUpdateSteps /\ UNCHANGED notDaemon)
  /\ WF_vars(PushWrites /\ UNCHANGED notDaemon)
  /\ WF_vars(Tick(MaxTime) /\ UNCHANGED notDaemon)
  /\ WF_vars(TickPending /\ UNCHANGED notDaemon)

(***************************************************************************)
(* A pull and the pushes that follow it: the daemon and the push command   *)
(***************************************************************************)

\* The issues Linear holds when it notifies the daemon of their change.
PullPushIssues(id) ==
  {[InitIssue(id) EXCEPT !.state = st, !.description = d] :
     st \in StateNames, d \in PullPushDescs}

\* Linear has posted an update notification for one issue; the tree is the
\* one of an earlier pull; the users change nothing.
PullPushInit ==
  /\ \E id \in Ids :
       /\ \E issue \in PullPushIssues(id) :
            remote = [i \in Ids |-> IF i = id THEN issue ELSE InitIssue(i)]
       /\ hooks = {[id |-> id, action |-> "update"]}
  /\ tree = InitTree
  /\ fsEvents = {}
  /\ timers = {}
  /\ moveDebounceMap = [k \in Ids |-> NoTimer]
  /\ burst = [k \in Ids |-> NoBurst]
  /\ ops = [s \in Slots |-> Idle]
  /\ now = TickMs
  /\ budget = 0
  /\ dirOrder = FALSE
  /\ pulled = [id \in Ids |-> NoIssue]
  /\ last = [act |-> "init"]
  /\ pushAll = PushAllIdle

PullPushNext ==
  \/ (WebhookPulls /\ UNCHANGED notDaemon)
  \/ (PullWrites /\ UNCHANGED notDaemon)
  \/ (WatcherDelivers /\ UNCHANGED notDaemon)
  \/ (TimerFires /\ UNCHANGED notDaemon)
  \/ (PushFetches /\ UNCHANGED notDaemon)
  \/ (PushUpdateSteps /\ UNCHANGED notDaemon)
  \/ (PushWrites /\ UNCHANGED notDaemon)
  \/ (Tick(MaxTime) /\ UNCHANGED notDaemon)
  \/ (PushAllStart /\ UNCHANGED <<rvars, ivars, svars, bvars>>)
  \/ (PushAllStep /\ UNCHANGED <<rvars, ivars, svars, bvars>>)
  \/ (PushAllDone /\ UNCHANGED <<rvars, ivars, svars, bvars>>)

(***************************************************************************)
(* pullAllTickets (the pull command without a ticket id)                   *)
(***************************************************************************)

PullAllIdle == [pc |-> "idle", issues |-> {}, listing |-> {}, updated |-> 0, errors |-> 0,
                log |-> <<>>]

\* A workflow state of the team that config.statusMapping has no entry for.
UnmappedState == "Backlog"
PullStates == StateNames \cup {UnmappedState}

\* result.issues of client.getIssues: the issues of the team, in the order of
\* their numbers.
getIssues(r) == {id \in Ids : r[id].present}
NextIssue(ids) == CHOOSE id \in ids : \A other \in ids : id[2] = "1" \/ other[2] # "1"

\* const result = await client.getIssues(...): the listing, or the error that
\* ends the command before its loop.
PullAllStart(ok) ==
  /\ pullAll.pc = "idle"
  /\ pullAll' = IF ok THEN [pullAll EXCEPT !.pc = "loop", !.issues = getIssues(remote),
                                            !.listing = getIssues(remote)]
                ELSE [pullAll EXCEPT !.pc = "failed"]
  /\ last' = [act |-> "pullAllStart"]
  /\ UNCHANGED <<remote, hooks, tree, fsEvents, timers, moveDebounceMap, burst, ops, now,
                 budget, dirOrder, pulled>>

\* How pullSingleTicket ends for an issue: its getIssue throws, or the state of
\* the issue has no folder, or the file is written.
PullOutcome(issue, fetch) ==
  IF ~fetch.ok \/ ~issue.present THEN "fetch error"
  ELSE IF findStatusFolder(issue.state) = NoFolder THEN "unknown state"
  ELSE "updated"

\* Mutant: the first error ends the loop.
PullAllStep_AbortsOnError(fetch) ==
  /\ pullAll.pc = "loop"
  /\ pullAll.issues # {}
  /\ LET id == NextIssue(pullAll.issues)
         outcome == PullOutcome(remote[id], fetch)
     IN /\ tree' = IF outcome = "fetch error" THEN tree
                   ELSE PullApply(tree, remote[id], dirOrder, now)
        /\ pullAll' = [pullAll EXCEPT
             !.issues = IF outcome = "updated" THEN @ \ {id} ELSE {},
             !.updated = IF outcome = "updated" THEN @ + 1 ELSE @,
             !.errors = IF outcome = "updated" THEN @ ELSE @ + 1,
             !.log = Append(@, [id |-> id, outcome |-> outcome, issue |-> remote[id],
                                before |-> tree])]
  /\ pulled' = KeepPulled(tree', remote)
  /\ last' = [act |-> "pullAllStep"]
  /\ UNCHANGED <<remote, hooks, fsEvents, timers, moveDebounceMap, burst, ops, now, budget,
                 dirOrder>>

\* One iteration of the loop of pullAllTickets: try { await pullSingleTicket(
\* issue.identifier, ...); updated++ } catch { errors++ }
PullAllStep(fetch) ==
  /\ pullAll.pc = "loop"
  /\ pullAll.issues # {}
  /\ LET id == NextIssue(pullAll.issues)
         outcome == PullOutcome(remote[id], fetch)
     IN /\ tree' = IF outcome = "fetch error" THEN tree
                   ELSE PullApply(tree, remote[id], dirOrder, now)
        /\ pullAll' = [pullAll EXCEPT
             !.issues = @ \ {id},
             !.updated = IF outcome = "updated" THEN @ + 1 ELSE @,
             !.errors = IF outcome = "updated" THEN @ ELSE @ + 1,
             !.log = Append(@, [id |-> id, outcome |-> outcome, issue |-> remote[id],
                                before |-> tree])]
  /\ pulled' = KeepPulled(tree', remote)
  /\ last' = [act |-> "pullAllStep"]
  /\ UNCHANGED <<remote, hooks, fsEvents, timers, moveDebounceMap, burst, ops, now, budget,
                 dirOrder>>

\* The loop is over: the summary line is printed.
PullAllDone ==
  /\ pullAll.pc = "loop"
  /\ pullAll.issues = {}
  /\ pullAll' = [pullAll EXCEPT !.pc = "done"]
  /\ last' = [act |-> "pullAllDone"]
  /\ UNCHANGED <<remote, hooks, tree, fsEvents, timers, moveDebounceMap, burst, ops, now,
                 budget, dirOrder, pulled>>

PullAllStarts == \E ok \in BOOLEAN : PullAllStart(ok)
PullAllSteps == \E fetch \in FetchOutcomes : PullAllStep(fetch)

\* The issues Linear may hold and the trees the pull command may find: each
\* issue in any state of the team, each file in either folder or missing.
PullAllIssues(id) ==
  {NoIssue} \cup {[InitIssue(id) EXCEPT !.state = st, !.title = ti] :
                    st \in PullStates, ti \in Titles}

PullAllInit ==
  /\ remote \in [Ids -> UNION {PullAllIssues(id) : id \in Ids}]
  /\ \A id \in Ids : remote[id] \in PullAllIssues(id)
  /\ \E folder \in [Ids -> Folders \cup {NoFolder}] :
       tree = [p \in {Path(folder[id], generateFilename(id, "Fix Bug", ParentOf(id))) :
                         id \in {i \in Ids : folder[i] # NoFolder}}
                 |-> [bytes |-> generateFile(convertLinearIssueToTicket(
                                   InitIssue(extractLinearIdFromFilename(p.name)))),
                      mtime |-> 0]]
  /\ hooks = {}
  /\ fsEvents = {}
  /\ timers = {}
  /\ moveDebounceMap = [k \in Ids |-> NoTimer]
  /\ burst = [k \in Ids |-> NoBurst]
  /\ ops = [s \in Slots |-> Idle]
  /\ now = TickMs
  /\ budget = 0
  /\ dirOrder = FALSE
  /\ pulled = [id \in Ids |-> NoIssue]
  /\ last = [act |-> "init"]
  /\ pullAll = PullAllIdle

notBatch == <<rvars, ivars, svars, codec>>

\* The two batch commands, each run on its own.
BatchNext ==
  \/ (PushAllStart /\ UNCHANGED <<notBatch, pullAll>>)
  \/ (PushAllStep /\ UNCHANGED <<notBatch, pullAll>>)
  \/ (PushAllDone /\ UNCHANGED <<notBatch, pullAll>>)
  \/ (PullAllStarts /\ UNCHANGED <<notBatch, pushAll>>)
  \/ (PullAllSteps /\ UNCHANGED <<notBatch, pushAll>>)
  \/ (PullAllDone /\ UNCHANGED <<notBatch, pushAll>>)

(***************************************************************************)
(* The filename codec: generateFilename, extractLinearIdFromFilename       *)
(***************************************************************************)

CodecIdle == [pc |-> "idle", linearId |-> NoId, title |-> "", parentId |-> NoId,
              filename |-> <<>>, extracted |-> NoId]

\* The identifiers of the issues of two teams; a sub-issue may have its parent
\* in its own team or in the other one.
CodecIds == {<<key, number>> : key \in TeamKeys, number \in Numbers}
\* Titles: the two of the model, an empty one, one that sanitizes to nothing.
CodecTitles == Titles \cup {"", "???"}

\* const filename = TicketFileParser.generateFilename(issue.identifier,
\* issue.title, issue.parent?.identifier)
CodecGenerate ==
  /\ codec.pc = "generate"
  /\ codec' = [codec EXCEPT !.pc = "extract",
                !.filename = generateFilename(codec.linearId, codec.title, codec.parentId)]

\* TicketFileParser.extractLinearIdFromFilename(file) of findTicketFile
CodecExtract ==
  /\ codec.pc = "extract"
  /\ codec' = [codec EXCEPT !.pc = "done",
                !.extracted = extractLinearIdFromFilename(codec.filename)]

CodecInit ==
  \E id \in CodecIds, title \in CodecTitles :
    \E parentId \in (CodecIds \cup {NoId}) \ {id} :
      codec = [CodecIdle EXCEPT !.pc = "generate", !.linearId = id, !.title = title,
                                !.parentId = parentId]

CodecNext ==
  \/ (CodecGenerate /\ UNCHANGED <<rvars, dvars, pushAll, ivars, svars, pullAll>>)
  \/ (CodecExtract /\ UNCHANGED <<rvars, dvars, pushAll, ivars, svars, pullAll>>)

BatchIdle == pullAll = PullAllIdle /\ codec = CodecIdle

(***************************************************************************)
(* Specifications                                                          *)
(***************************************************************************)

\* The daemon: webhooks, watcher, debounce, pulls and pushes.
Init == DaemonInit /\ RetryIdle /\ pushAll = PushAllIdle /\ IngestIdle /\ SessionIdle /\ BatchIdle
Next == DaemonNext
Spec == Init /\ [][Next]_vars

\* RetryManager.withRetry on its own, for every configuration and error sequence.
RetrySpecInit == RetryInit /\ DaemonInit /\ pushAll = PushAllIdle /\ IngestIdle /\ SessionIdle /\ BatchIdle
RetrySpec == RetrySpecInit /\ [][RetryNext]_vars

\* The watcher and the debounce of handleFileMove under arbitrary raw events.
DebounceSpecInit == DebounceInit /\ RetryIdle /\ pushAll = PushAllIdle /\ IngestIdle /\ SessionIdle /\ BatchIdle
DebounceSpec == DebounceSpecInit /\ [][DebounceNext]_vars

\* The push command without a ticket id, on every tree of PushAllInit.
PushAllSpecInit == PushAllInit /\ RetryIdle /\ IngestIdle /\ SessionIdle /\ BatchIdle
PushAllSpec == PushAllSpecInit /\ [][PushAllNext]_vars

\* The webhook endpoint under arbitrary notifications and failures of Linear.
IngestSpecInit == IngestInit /\ RetryIdle /\ pushAll = PushAllIdle /\ SessionIdle /\ BatchIdle
IngestSpec == IngestSpecInit /\ [][IngestNext]_vars

\* The daemon under local changes only: the watcher, the debounce, the pushes.
WatchSpecInit == DaemonInit /\ RetryIdle /\ pushAll = PushAllIdle /\ IngestIdle /\ SessionIdle /\ BatchIdle
WatchSpec == WatchSpecInit /\ [][WatchNext]_vars

\* The daemon after update notifications, and the push command run beside it.
PullPushSpecInit == PullPushInit /\ RetryIdle /\ IngestIdle /\ SessionIdle /\ BatchIdle
PullPushSpec == PullPushSpecInit /\ [][PullPushNext]_vars

\* The daemon from agreement, one external change, under fairness.
SettleSpecInit ==
  SettleInit /\ RetryIdle /\ pushAll = PushAllIdle /\ IngestIdle /\ SessionIdle /\ BatchIdle
SettleSpec == SettleSpecInit /\ [][SettleNext]_vars /\ SettleFairness

\* The filename codec on every id, title and parent of its input sets.
CodecSpecInit ==
  /\ CodecInit /\ pullAll = PullAllIdle
  /\ DaemonInit /\ RetryIdle /\ pushAll = PushAllIdle /\ IngestIdle /\ SessionIdle
CodecSpec == CodecSpecInit /\ [][CodecNext]_vars

\* The batch commands: the push command or the pull command without a ticket id.
BatchSpecInit ==
  /\ \/ (PushAllInit /\ pullAll = [PullAllIdle EXCEPT !.pc = "off"])
     \/ (PullAllInit /\ pushAll = [PushAllIdle EXCEPT !.pc = "off"])
  /\ RetryIdle /\ IngestIdle /\ SessionIdle /\ codec = CodecIdle
BatchSpec == BatchSpecInit /\ [][BatchNext]_vars

\* The tunnel session from start to exit, with the watcher and its pushes.
SessionSpecInit == SessionInit /\ RetryIdle /\ pushAll = PushAllIdle /\ IngestIdle /\ BatchIdle
SessionSpec == SessionSpecInit /\ [][SessionNext]_vars

\* The session under fairness: a timer that is due fires, an await on ngrok or
\* Linear settles, an uncaught error ends the process.
SessionFairness ==
  /\ WF_vars(StartConnects /\ UNCHANGED notSession)
  /\ WF_vars(StartRegisters /\ UNCHANGED notSession)
  /\ WF_vars(Rotation /\ UNCHANGED notSession)
  /\ WF_vars(ListenCrash /\ UNCHANGED notSession)
  /\ WF_vars(StopClose /\ UNCHANGED notSession)
  /\ WF_vars(StopDisconnects /\ UNCHANGED notSession)
  /\ WF_vars(StopDeregisters /\ UNCHANGED notSession)
  /\ WF_vars(SessionAdvance /\ UNCHANGED notSession)
  /\ WF_vars(SessionWatch /\ UNCHANGED notSession)
SessionFairSpec == SessionSpecInit /\ [][SessionNext]_vars /\ SessionFairness

(***************************************************************************)
(* Properties                                                              *)
(***************************************************************************)

InFlight(id) == {s \in Slots : ops[s] # Idle /\ ops[s].id = id}

\* C1: operations on the same id are strictly serialized: while one pull or push
\* of an id is in progress (it has issued its remote fetch or read the file and
\* has not completed), no other operation on that id has made a remote call or
\* read or written a file.
C1_Serialized == \A id \in Ids : Cardinality(InFlight(id)) <= 1

\* C2: in every reachable state the tree holds at most one file whose filename
\* encodes a given id.
C2_OneFilePerId == \A id \in Ids : Cardinality(FilesOf(tree, id)) <= 1

\* C3: pull is idempotent and determined by the remote state alone: the file a
\* pull writes is the generated content of the fetched issue at the path the
\* issue maps to, whatever the tree held before; and a pull of an issue whose
\* previous pull wrote the files in place, with no remote change and no local
\* change since, leaves the same files at the same paths with identical bytes.
C3_PullIdempotent ==
  last.act = "pull" =>
    /\ PullTarget(last.issue) \in DOMAIN tree
    /\ tree[PullTarget(last.issue)].bytes
         = [fm |-> [linear_id |-> last.issue.identifier, title |-> last.issue.title,
                    status |-> last.issue.state,
                    updated_at |-> [wall |-> last.issue.updatedAt + SGT_OFFSET_MS,
                                    zone |-> "+08:00"]],
            body |-> last.issue.description]
    /\ last.repeat => Contents(tree, last.id) = last.before

\* C3 witness: a second pull of the same issue has completed right after the first.
C3_Witness == last.act = "pull" /\ last.repeat /\ last.before # {}

C5_NoOpPush ==
  (/\ last.act = "pushDiff"
   /\ last.issue.present
   /\ last.newStateId = RemoteStateId(last.issue.state)
   /\ last.ticket.frontmatter.title = last.issue.title
   /\ last.ticket.content = last.issue.description)
  => /\ last.updates = {}
     /\ ops[last.slot] = Idle
     /\ tree = last.treeWas
     /\ remote = last.remoteWas

\* C5 witness: a push found its file equal to the remote issue.
C5_Witness ==
  /\ last.act = "pushDiff"
  /\ last.issue.present
  /\ last.newStateId = RemoteStateId(last.issue.state)
  /\ last.ticket.frontmatter.title = last.issue.title
  /\ last.ticket.content = last.issue.description

Newer(entry) == entry.mtime > entry.updated_at.wall - SGT_OFFSET_MS

\* C6: pushAll invokes push for a file exactly when the file's mtime is
\* strictly newer than the updated_at stored in its frontmatter; every other
\* file is counted as skipped and causes no remote call.
C6_TimestampGate ==
  /\ \A i \in 1..Len(pushAll.log) :
       /\ pushAll.log[i].invoked <=> Newer(pushAll.log[i])
       /\ ~Newer(pushAll.log[i]) =>
            /\ pushAll.log[i].outcome = "skipped"
            /\ pushAll.log[i].fetches = 0
            /\ pushAll.log[i].updateCalls = 0
  /\ pushAll.skipped = Cardinality({i \in 1..Len(pushAll.log) : ~Newer(pushAll.log[i])})

\* C6 witness: of two files, the one older than its updated_at was skipped and
\* the one newer was pushed with an update.
C6_Witness ==
  /\ pushAll.pc = "done"
  /\ \E i, j \in 1..Len(pushAll.log) :
       /\ pushAll.log[i].mtime < pushAll.log[i].updated_at.wall - SGT_OFFSET_MS
       /\ pushAll.log[i].outcome = "skipped"
       /\ Newer(pushAll.log[j])
       /\ pushAll.log[j].updateCalls = 1

TimersOf(key) == {tm \in timers : tm.key = key}

\* C7: per key at most one debounce timer is pending, due one full window after
\* the key's last event (each event resets it, events of other keys do not);
\* a timer settles only once a full window has passed since the key's last
\* event, and after the last event of a burst exactly one timer settles.
C7_DebounceCoalescing ==
  \A key \in Ids :
    /\ Cardinality(TimersOf(key)) <= 1
    /\ \A tm \in TimersOf(key) : tm.due = burst[key].lastAt + DEBOUNCE_MS
    /\ burst[key].settled <= 1
    /\ burst[key].lastAt >= 0 => (burst[key].settled = 1 <=> TimersOf(key) = {})
    /\ burst[key].settled = 1 => now >= burst[key].lastAt + DEBOUNCE_MS
    /\ (burst[key].lastAt >= 0 /\ now > burst[key].lastAt + DEBOUNCE_MS)
         => burst[key].settled = 1

\* C7 witness: a burst of five events of one key has settled, once, while a
\* timer of the other key is still pending.
C7_Witness ==
  \E key \in Ids, other \in Ids :
    /\ key # other
    /\ burst[key].events = 5
    /\ burst[key].settled = 1
    /\ TimersOf(other) # {}

AllRetryable == \A i \in 1..Len(rFailed) : rFailed[i]

\* C8: withRetry never invokes the operation more than maxAttempts times, and
\* when every invocation has failed with a retryable error it has invoked the
\* operation exactly maxAttempts times and thrown the last error.
C8_RetryExhaustion ==
  /\ rCalls <= rCfg.maxAttempts
  /\ (rPc = "done" /\ Len(rFailed) = rCalls /\ AllRetryable)
       => /\ rCalls = rCfg.maxAttempts
          /\ rOut = [kind |-> "thrown", error |-> rLastErr]

\* C8 witness: with the default configuration three retryable failures, then the throw.
C8_Witness ==
  /\ rCfg = DEFAULT_CONFIG
  /\ rPc = "done"
  /\ rCalls = 3
  /\ Len(rFailed) = 3
  /\ AllRetryable
  /\ rOut.kind = "thrown"

\* C9: an invocation that fails with an error classified as fatal is the last
\* one: withRetry throws that error at once, without a sleep and without
\* another invocation, whatever the attempt number.
C9_FatalNotRetried ==
  \A i \in 1..Len(rFailed) :
    ~rFailed[i] =>
      /\ i = Len(rFailed)
      /\ rCalls = i
      /\ Len(rWaits) = i
      /\ rPc = "done"
      /\ rOut = [kind |-> "thrown", error |-> rLastErr]
      /\ ~isRetryableError(rOut.error)

\* C9 witness: a fatal error on a later attempt has been thrown.
C9_Witness ==
  /\ rPc = "done"
  /\ Len(rFailed) >= 2
  /\ ~rFailed[Len(rFailed)]

\* C10: with the default configuration the first attempt runs without a wait,
\* the wait before attempt 2 is 30 s, the wait before attempt 3 is 120 s, and no
\* wait is shorter than an earlier one.
C10_RetrySchedule ==
  rCfg = DEFAULT_CONFIG =>
    /\ Len(rWaits) >= 1 => rWaits[1] = 0
    /\ Len(rWaits) >= 2 => rWaits[2] = DELAY_SHORT
    /\ Len(rWaits) >= 3 => rWaits[3] = DELAY_LONG
    /\ \A i, j \in 1..Len(rWaits) : i < j => rWaits[i] <= rWaits[j]

\* C11: handling a remove notification for an id that has no local file (as
\* after a first remove notification) raises no error, removes no file and
\* leaves the tree as it was.
C11_IdempotentDelete ==
  (last.act = "remove" /\ FilesOf(last.treeWas, last.id) = {})
    => /\ tree = last.treeWas
       /\ ~reqs[last.slot].removed
       /\ reqs[last.slot].response = HTTP_OK

\* A second remove notification for PAP-1 was handled after the first removed the file.
C11_Witness ==
  /\ last.act = "remove"
  /\ last.slot = 2
  /\ reqs[1].pc = "done" /\ reqs[1].body.action = "remove" /\ reqs[1].removed
  /\ reqs[1].ticketId = reqs[2].ticketId
  /\ FilesOf(last.treeWas, last.id) = {}
  /\ reqs[2].response = HTTP_OK

\* The identifier a body resolves to, as the claim reads it.
Resolvable(body) == body.where # "none"

\* C12: a create or update with a resolvable identifier starts exactly one
\* pull of that identifier (after the grace period of a created comment; the
\* attempts of the retry belong to that pull) and no delete; a remove with a
\* resolvable identifier starts exactly one delete handling and no pull;
\* every other body starts nothing, touches no file and is answered 200 at once.
C12_WebhookDispatch ==
  \A s \in ReqSlots :
    reqs[s].pc # "free" =>
      LET b == reqs[s].body
      IN IF b.action \in {"create", "update"} /\ Resolvable(b)
           THEN /\ reqs[s].ticketId = b.id
                /\ reqs[s].deletes = 0 /\ ~reqs[s].removed
                /\ reqs[s].syncs = IF reqs[s].pc = "grace" THEN 0 ELSE 1
         ELSE IF b.action = "remove" /\ Resolvable(b)
           THEN /\ reqs[s].ticketId = b.id
                /\ reqs[s].deletes = 1
                /\ reqs[s].syncs = 0 /\ reqs[s].fetches = 0
         ELSE /\ reqs[s].syncs = 0 /\ reqs[s].deletes = 0
              /\ reqs[s].fetches = 0 /\ ~reqs[s].removed
              /\ reqs[s].pc = "done" /\ reqs[s].response = HTTP_OK /\ reqs[s].waited = 0

\* A created comment led to one finished pull, and a body of an unknown
\* action with an identifier was ignored.
C12_Witness ==
  /\ reqs[1].body.action = "create" /\ reqs[1].body.type = "Comment"
  /\ reqs[1].pc = "done" /\ reqs[1].syncs = 1 /\ reqs[1].response = HTTP_OK
  /\ reqs[2].body.action = "restore" /\ Resolvable(reqs[2].body)
  /\ reqs[2].pc = "done" /\ reqs[2].response = HTTP_OK

\* C13: every accepted notification has its success response at once, without
\* waiting for the pull or delete, and a transient failure (also one that
\* lasts until the retries are used up) is never answered with a failure.
C13_RespondsOnAccept ==
  \A s \in ReqSlots :
    reqs[s].pc # "free" =>
      /\ reqs[s].response # NoResponse
      /\ reqs[s].response = HTTP_ERROR => ~reqs[s].transient

\* The session is Active: started, no rotation or stop in progress, and the
\* rotation timer held in restartTimer is armed.
Active ==
  /\ Alive
  /\ proc.start = "done" /\ proc.rot = "idle" /\ proc.stop = "none"
  /\ daemon.restartTimer \in stimers

\* The notification target Linear holds for this daemon is url.
RegisteredAt(url) ==
  [id |-> daemon.webhookId, team |-> TEAM, url |-> url] \in webhooks

\* C14: whenever the session is Active a tunnel is open, the URL the daemon
\* holds (and GET /health reports) is the URL of that tunnel, and the webhook
\* registered with Linear is that URL followed by /webhook; so Active is not
\* entered after a tunnel open or a registration that failed.
C14_ActiveSession ==
  Active =>
    /\ ngrok # NoUrl
    /\ daemon.ngrokUrl = ngrok
    /\ RegisteredAt(WebhookUrl(ngrok))

\* C15: a rotation attempt that follows a failed rotation starts one
\* cool-down after the failure.
C15_CooldownRetry ==
  (last.act = "rotate" /\ last.failedAt >= 0) => last.at - last.failedAt = COOLDOWN_MS

\* The daemon is in Failed: the last rotation failed and stop() was not called.
Failed == proc.run = "alive" /\ shist.failedAt >= 0 /\ proc.stop = "none"

\* C16: from Failed the daemon comes back to Active with a fresh rotation
\* timer, unless it is stopped; failures of ngrok and Linear end at some point.
C16_RecoversFromFailed ==
  Failed ~> ((Active /\ shist.failedAt < 0) \/ proc.stop # "none")

\* C17: Linear holds at most one webhook of this team with an ngrok URL; a
\* registration leaves exactly one, with the URL just registered; it creates
\* a webhook only when there was none, otherwise it updates the one there was
\* and keeps its id; the other webhooks are left as they were.
C17_RegistrationUpsert ==
  /\ Cardinality(OurWebhooks(webhooks)) <= 1
  /\ \A w \in OurWebhooks(webhooks) :
       shist.registrations > 0 => w.url = shist.registered
  /\ last.act = "register" =>
       LET before == OurWebhooks(last.before)
       IN /\ OurWebhooks(webhooks) = {[id |-> last.id, team |-> TEAM, url |-> last.url]}
          /\ webhooks \ OurWebhooks(webhooks) = last.before \ before
          /\ before = {} => \A w \in last.before : w.id # last.id
          /\ before # {} => \E w \in before : w.id = last.id

\* The rotation re-registered the tunnel: the webhook the start had created
\* was updated in place with the new URL.
C17_Witness ==
  /\ last.act = "register"
  /\ shist.registrations = 2
  /\ StaleHook \notin last.before
  /\ \E w \in OurWebhooks(last.before) : w.id = last.id /\ w.url # last.url

\* C18: after stop() has cleared the timers no timer-driven action starts:
\* no rotation attempt, no new rotation or cool-down timer, no debounced push.
C18_CancelledOnShutdown == shist.afterStop = {}

\* C19: the process does not exit while a push that was in flight when the
\* stop signal arrived is still in flight.
C19_InFlightFinish == proc.run = "exited" => shist.killed = {}

\* stop() was called and the process still runs.
Stopping == proc.run = "alive" /\ proc.stop \notin {"none", "done"}

Logged(log, field) == {log[i][field] : i \in 1..Len(log)}

\* C21: a batch processes every entity of its listing once, whatever fails on
\* the way: while pushAll or pullAll runs, the entities processed and those
\* left make up the listing and each processed entity raised one tally; when
\* it is done nothing is left, so pushed + skipped + errors is the number of
\* files and updated + errors the number of issues Linear listed.
C21_BatchIsolation ==
  /\ pushAll.pc \in {"loop", "done"} =>
       /\ pushAll.pushed + pushAll.skipped + pushAll.errors = Len(pushAll.log)
       /\ Cardinality(Logged(pushAll.log, "path")) = Len(pushAll.log)
       /\ Logged(pushAll.log, "path") \cap pushAll.files = {}
       /\ Logged(pushAll.log, "path") \cup pushAll.files = getAllTicketFiles(tree)
  /\ pushAll.pc = "done" =>
       pushAll.pushed + pushAll.skipped + pushAll.errors = Cardinality(getAllTicketFiles(tree))
  /\ pullAll.pc \in {"loop", "done"} =>
       /\ pullAll.updated + pullAll.errors = Len(pullAll.log)
       /\ Cardinality(Logged(pullAll.log, "id")) = Len(pullAll.log)
       /\ Logged(pullAll.log, "id") \cap pullAll.issues = {}
       /\ Logged(pullAll.log, "id") \cup pullAll.issues = getIssues(remote)
  /\ pullAll.pc = "done" =>
       pullAll.updated + pullAll.errors = Cardinality(getIssues(remote))

\* pullAll is done: the pull of the first issue failed, the second was pulled.
C21_Witness ==
  /\ pullAll.pc = "done"
  /\ Len(pullAll.log) = 2
  /\ pullAll.log[1].outcome = "fetch error"
  /\ pullAll.log[2].outcome = "updated"
  /\ pullAll.updated = 1 /\ pullAll.errors = 1

\* C22: a debounce timer that settles on a removed event calls nothing and
\* writes nothing: Linear, the tree and the operations in flight stay as they
\* were; a push starts only when a timer settles on an added event; and
\* Linear changes an issue only for the update call of a push, and deletes none.
C22_DeletionNotPropagated ==
  /\ [][(last'.act = "settle" /\ last'.action = "removed") =>
          (remote' = remote /\ hooks' = hooks /\ tree' = tree /\ ops' = ops)]_vars
  /\ [][(\E s \in Slots : ops[s] = Idle /\ ops'[s] # Idle) =>
          (last'.act = "settle" /\ last'.action = "added")]_vars
  /\ [][remote' # remote => last'.act = "pushUpdate"]_vars
  /\ [](\A id \in Ids : remote[id].present)

\* The file of a ticket was deleted, the timer of its key settled on the
\* removed event, and Linear holds the issue as before.
C22_Witness ==
  /\ last.act = "settle" /\ last.action = "removed"
  /\ FilesOf(tree, last.key) = {}
  /\ remote[last.key] = InitIssue(last.key)

\* C23: the id read back from a generated filename is the id the filename was
\* generated for, for a regular filename and for a child filename alike.
C23_FilenameIdentity ==
  codec.pc = "done" => codec.extracted = codec.linearId

\* C24: whether the notification of a pull or of a delete is sent or fails,
\* the step that ends the handling answers 200, starts no further pull, fetch
\* or delete for the request, and writes no file beyond what the pull or the
\* delete itself did.
C24_NotificationContained ==
  [][\A s \in ReqSlots :
       /\ (reqs[s].pc = "notify" /\ reqs'[s] # reqs[s]) =>
            /\ reqs'[s] = [reqs[s] EXCEPT !.pc = "done", !.response = HTTP_OK]
            /\ tree' = tree
       /\ (reqs[s].pc = "remove" /\ reqs'[s] # reqs[s]) =>
            /\ reqs'[s] = [reqs[s] EXCEPT !.pc = "done", !.response = HTTP_OK,
                                           !.removed = (tree' # tree)]
            /\ tree' \in {tree, removeLocalTicketFile(tree, reqs[s].ticketId, dirOrder)}]_vars

\* The pull of PAP-1 wrote its file, its notification failed, the answer is 200.
C24_Witness ==
  /\ last.act = "notify" /\ ~last.sent
  /\ reqs[last.slot].pc = "done" /\ reqs[last.slot].response = HTTP_OK
  /\ reqs[last.slot].fetches = 1 /\ reqs[last.slot].syncs = 1

\* C25: a single-entity operation reports its failure to its caller: a pull
\* that ends at its fetch ends the request with an error, and so does a delete
\* that met an error of the file system or of the configuration while it
\* looked for the file or removed it.
C25_FailLoud ==
  /\ [][\A s \in ReqSlots :
          (reqs[s].pc = "fetch" /\ reqs'[s].pc = "done") => reqs'[s].response = HTTP_ERROR]_vars
  /\ []((last.act = "remove" /\ last.fsError) => reqs[last.slot].response = HTTP_ERROR)

\* C28: after the handling of a remove notification for an id that had a
\* file, the tree holds no file of that id, and every file of another id is
\* still there.
C28_DeleteRemovesFile ==
  (last.act = "remove" /\ ~last.fsError /\ FilesOf(last.treeWas, last.id) # {}) =>
    /\ FilesOf(tree, last.id) = {}
    /\ \A p \in DOMAIN last.treeWas :
         extractLinearIdFromFilename(p.name) # last.id => p \in DOMAIN tree

\* C30: a request that removed a file is a remove notification of type Issue
\* about the entity of that file; a remove notification about a comment
\* removes nothing.
C30_CommentRemoveKeepsFile ==
  \A s \in ReqSlots :
    reqs[s].removed =>
      /\ reqs[s].body.action = "remove"
      /\ reqs[s].body.type = "Issue"


\* The fields of {stateId, title, description} whose local value, as a push
\* decoded it, differs from the issue it fetched.
C26_Changed(op, issue) ==
  (IF op.newStateId # RemoteStateId(issue.state) THEN {"stateId"} ELSE {})
    \cup (IF PushNewTitle(op.path, op.ticket) # issue.title THEN {"title"} ELSE {})
    \cup (IF op.ticket.content # issue.description THEN {"description"} ELSE {})

\* C26: a push makes at most one update call, which carries exactly the fields
\* of {stateId, title, description} whose local value differs from the fetched
\* issue and changes nothing else of the remote; the file is rewritten only
\* after that call succeeded, as the decoded ticket with updated_at set to the
\* time of the write; a failed fetch or a failed update leaves the tree alone.
C26_PushUpdate ==
  [][\A s \in Slots :
       (ops[s] # Idle /\ ops[s].kind = "push" /\ ops'[s] # ops[s]) =>
         LET op == ops[s]
             rid == op.ticket.frontmatter.linear_id
         IN CASE op.pc = "fetch" ->
                   /\ tree' = tree /\ remote' = remote
                   /\ IF remote[rid].present /\ C26_Changed(op, remote[rid]) # {}
                        THEN /\ ops'[s].pc = "update"
                             /\ ops'[s].updates = C26_Changed(op, remote[rid])
                        ELSE ops'[s] = Idle
              [] op.pc = "update" ->
                   /\ tree' = tree
                   /\ \A id \in Ids \ {rid} : remote'[id] = remote[id]
                   /\ IF remote[rid].present
                        THEN /\ ops'[s].pc = "write"
                             /\ remote'[rid].state =
                                  (IF "stateId" \in op.updates
                                     THEN StateNameOfId(op.newStateId) ELSE remote[rid].state)
                             /\ remote'[rid].title =
                                  (IF "title" \in op.updates
                                     THEN PushNewTitle(op.path, op.ticket) ELSE remote[rid].title)
                             /\ remote'[rid].description =
                                  (IF "description" \in op.updates
                                     THEN op.ticket.content ELSE remote[rid].description)
                        ELSE ops'[s] = Idle /\ remote' = remote
              [] op.pc = "write" ->
                   /\ remote' = remote
                   /\ ops'[s] = Idle
                   /\ DOMAIN tree' = DOMAIN tree \cup {op.path}
                   /\ \A q \in DOMAIN tree \ {op.path} : tree'[q] = tree[q]
                   /\ LET written == parseFile(tree'[op.path].bytes)
                      IN /\ written.content = op.ticket.content
                         /\ DateParse(written.frontmatter.updated_at) = now
                         /\ [written.frontmatter EXCEPT !.updated_at = op.ticket.frontmatter.updated_at]
                              = op.ticket.frontmatter
              [] OTHER -> FALSE]_vars

\* C26 witness: a push has rewritten its file after its update call reached the
\* remote: the file's updated_at is the time of the write and the remote
\* description is the file's body.
C26_Witness ==
  /\ last.act = "pushWrite"
  /\ \E p \in DOMAIN tree :
       /\ extractLinearIdFromFilename(p.name) = last.id
       /\ DateParse(tree[p].bytes.fm.updated_at) = now
       /\ now > 0
       /\ remote[last.id].present
       /\ remote[last.id].description = Trim(tree[p].bytes.body)


\* C27: a pull of an issue whose state has no entry in the status mapping ends
\* with an error and leaves the tree as it was, the issue's own file included;
\* pullAll counts the error and goes on: every other issue of the listing is
\* pulled, and an issue that is pulled has its file at its target path.
C27_UnknownStateFatal ==
  /\ [][Len(pullAll'.log) = Len(pullAll.log) + 1 =>
          LET entry == pullAll'.log[Len(pullAll'.log)]
          IN /\ (entry.outcome # "fetch error"
                   /\ findStatusFolder(entry.issue.state) = NoFolder) =>
                  /\ entry.outcome = "unknown state"
                  /\ pullAll'.errors = pullAll.errors + 1
                  /\ pullAll'.updated = pullAll.updated
                  /\ tree' = tree
                  /\ pullAll'.pc = "loop"
                  /\ pullAll'.issues = pullAll.issues \ {entry.id}
             /\ entry.outcome = "updated" =>
                  /\ findStatusFolder(entry.issue.state) # NoFolder
                  /\ PullTarget(entry.issue) \in DOMAIN tree'
                  /\ pullAll'.updated = pullAll.updated + 1]_vars
  /\ [](pullAll.pc = "done" =>
          \A id \in pullAll.listing : \E i \in 1..Len(pullAll.log) : pullAll.log[i].id = id)

\* C27 witness: pullAll is done; the first issue is in a state without a
\* folder and its file is where and what it was, the second issue was pulled.
C27_Witness ==
  /\ pullAll.pc = "done"
  /\ Len(pullAll.log) = 2
  /\ pullAll.log[1].outcome = "unknown state"
  /\ pullAll.log[2].outcome = "updated"
  /\ Contents(pullAll.log[1].before, pullAll.log[1].id) # {}
  /\ Contents(tree, pullAll.log[1].id) = Contents(pullAll.log[1].before, pullAll.log[1].id)
  /\ PullTarget(pullAll.log[2].issue) \in DOMAIN tree


\* C29: the key under which the daemon debounces an event of the watcher is
\* the id the file codec reads from the name of the reported file, for a
\* child's file (parent.child form) the id of the child; and the push a
\* settled timer starts is the push of that key.
C29_DebounceKeyIsEntity ==
  /\ [][\A e \in fsEvents \ fsEvents' :
          last'.act = "event" => last'.key = extractLinearIdFromFilename(e.path.name)]_vars
  /\ [][\A tm \in timers \ timers', s \in Slots :
          (last'.act = "settle" /\ ops[s] = Idle /\ ops'[s] # Idle) =>
            /\ ops'[s].id = tm.key
            /\ extractLinearIdFromFilename(ops'[s].path.name) = tm.key]_vars

\* C31: an error of a fatal class (authentication, validation, file system) is
\* classified non-retryable whatever else its message contains, and an error
\* of no listed class is classified retryable: the classification of the last
\* failed call is "retryable" exactly when its message has no fatal keyword.
C31_FatalClassesWin ==
  Len(rFailed) > 0 =>
    rFailed[Len(rFailed)] = (rLastErr \cap {AuthWords, ValidationWords, FsWords} = {})

\* C32: a deleted entity's file is not resurrected: when a pull of id has
\* finished after Linear deleted the issue, the remove notification has been
\* handled and nothing of id is in flight, the tree holds no file of id.
C32_NotResurrected ==
  \A id \in Ids :
    (/\ last.act = "pull" /\ last.id = id
     /\ ~remote[id].present
     /\ [id |-> id, action |-> "remove"] \notin hooks
     /\ InFlight(id) = {})
    => FilesOf(tree, id) = {}

\* C33: overlapping pulls converge on the latest remote state: when a pull of
\* id has finished, no notification of id is waiting and nothing of id is in
\* flight, the tree holds exactly one file of id, at the path of the issue as
\* Linear has it now and with the content generated from it.
C33_PullsConverge ==
  \A id \in Ids :
    (/\ last.act = "pull" /\ last.id = id
     /\ remote[id].present
     /\ [id |-> id, action |-> "update"] \notin hooks
     /\ InFlight(id) = {})
    => /\ FilesOf(tree, id) = {PullTarget(remote[id])}
       /\ tree[PullTarget(remote[id])].bytes =
            generateFile(convertLinearIssueToTicket(remote[id]))

\* C34: the HTTP ingestor is started once: no rotation calls app.listen while
\* the server started earlier holds the port, and at most one listener exists.
C34_IngestorStartedOnce ==
  /\ ~proc.listenError
  /\ proc.listening <= 1

\* C35: retry wrappers do not multiply: for one notification the fetch of the
\* issue made by the pull is attempted at most maxAttempts (3) times in all.
C35_RetriesDoNotMultiply ==
  \A s \in ReqSlots : reqs[s].fetches <= DEFAULT_MAX_ATTEMPTS

\* C36: a pull followed by a push is a no-op: when a push has fetched the
\* issue and compares it with a file that is as a pull of that same issue
\* wrote it (no local edit, no remote change since), it builds no update, so
\* no update call is made and the file is not rewritten.
C36_PullThenPushNoOp ==
  (/\ last.act = "pushDiff"
   /\ last.issue.present
   /\ pulled[last.issue.identifier] = last.issue
   /\ last.path \in DOMAIN tree
   /\ parseFile(tree[last.path].bytes) = last.ticket)
  => /\ last.updates = {}
     /\ ops[last.slot] = Idle
     /\ tree = last.treeWas
     /\ remote = last.remoteWas

\* C37: a file that has just been synced is not push-worthy: when the push
\* command comes to a file that is as a pull of the issue Linear holds wrote
\* it, or to the file a push has just rewritten, it counts it as skipped and
\* does not call pushSingleTicket for it.
C37_SyncedNotPushWorthy ==
  [][Len(pushAll'.log) = Len(pushAll.log) + 1 =>
       LET entry == pushAll'.log[Len(pushAll'.log)]
           id == extractLinearIdFromFilename(entry.path.name)
       IN (/\ entry.path \in DOMAIN tree
           /\ \/ (remote[id].present /\ pulled[id] = remote[id])
              \/ (last.act = "pushWrite" /\ last.id = id))
          => (~entry.invoked /\ entry.outcome = "skipped")]_vars

\* The watcher has reported, and the daemon not yet handled, the move of the
\* file of id by the local user: the unlink of the old path, the add of the new.
MoveReported(id) ==
  /\ budget = 0
  /\ \A i \in Ids : remote[i].present /\ remote[i].updatedAt = 0
  /\ \E u \in fsEvents, a \in fsEvents :
       /\ u.kind = "unlink" /\ a.kind = "add"
       /\ u.path.name = a.path.name /\ u.path.folder # a.path.folder
       /\ extractLinearIdFromFilename(a.path.name) = id
       /\ a.path \in DOMAIN tree

PushStarted(id) == \E s \in Slots : ops[s] # Idle /\ ops[s].kind = "push" /\ ops[s].id = id

\* C38: a local move is eventually pushed: when the watcher has reported the
\* move of the file of id as an unlink and an add, whichever the daemon
\* handles first, and no other event follows, a push of id is started.
C38_MoveEventuallyPushed ==
  \A id \in Ids : MoveReported(id) ~> PushStarted(id)

\* The daemon is at rest: no debounce timer is pending, no pull or push is in
\* flight, no notification and no event of the watcher waits to be handled.
Quiescent ==
  /\ timers = {}
  /\ \A s \in Slots : ops[s] = Idle
  /\ hooks = {}
  /\ fsEvents = {}

\* C39: the daemon reaches quiescence: from agreement of tree and Linear, and
\* after at most one external change, the pulls and pushes that follow one
\* another come to an end: from some point on the daemon is at rest for good.
C39_ReachesQuiescence == <>[]Quiescent

\* C39 witness: after the external change a notification was pulled or a
\* debounce timer has settled, and the daemon is at rest.
C39_Witness ==
  /\ Quiescent
  /\ budget = 0
  /\ \E id \in Ids : burst[id].settled > 0
  /\ \E id \in Ids : pulled[id] # NoIssue

====
